---- MODULE Spec2Model ----
(***************************************************************************)
(* A model of the engine of kde-connect-fyne (internal/core/core.go), of   *)
(* its connections (network.Connection) and of the configuration it        *)
(* persists.  Every handler of the engine is one action; the events it     *)
(* emits, the packets it writes and the configuration saves it performs    *)
(* are recorded, in program order, in the variable trace, and the call     *)
(* itself (its arguments, the values it read, its result) in op.           *)
(***************************************************************************)
EXTENDS Integers, Sequences, FiniteSets, TLC

\* ------------------------------------------------------------- bounds
\* Connections ever created (accepted or dialled) in one run.
MaxConns == 2
\* Engine operations in one run.
MaxSteps == 3
\* Starts of the program over the life of one installation.
MaxRuns == 3
\* Last TCP port NewEngine probes (1764 in the source).
MaxPort == 1717
\* Bytes in a public-key blob handed to GetVerificationKey.
MaxKeyLen == 2
\* Network interfaces net.Interfaces reports.
MaxIfaces == 2
\* Goroutines calling SendPacket on one connection, and packets each sends.
MaxSenders == 2
MaxPackets == 2
\* Listeners registered on the bus, and Emit calls made on it.
MaxListeners == 2
MaxEmits == 1
\* Goroutines working on the engine's maps at once.
MaxTasks == 2
\* Packets the peer writes after its identity packet.
MaxAfter == 2
\* Seconds after which a stored offer's age is no longer counted.
MaxAge == 45
\* kdeconnect.ping packets the two users send.
MaxPings == 1

\* ------------------------------------------------------------- inputs
LocalDeviceId == "local"
Devices == {"d1", "d2"}
IPs == {"10.0.0.2", "10.0.0.3"}
UdpPorts == {1716, 40000}
Timestamps == {1700000000}
SftpPorts == {0, 1739}
\* SubjectPublicKeyInfo blobs, as byte strings.
LocalSPKI == <<48, 130>>
OtherTypes == {"kdeconnect.battery"}

NoConn == 0
MinPort == 1716
NoPort == 0
NoHolder == 0
Hostnames == {"h1", "h2"}

\* ------------------------------------------------------------- records
IdentityBody(id, name, port) ==
    [DeviceId |-> id, DeviceName |-> name, TcpPort |-> port]

UDPAddr(ip, port) == [IP |-> ip, Port |-> port]

DiscoveredDevice(identity, addr) == [Identity |-> identity, Addr |-> addr]

PairedDeviceInfo(identity, ip, port) ==
    [Identity |-> identity, LastIP |-> ip, LastPort |-> port]

PairRequest(ip, identity, key) ==
    [RemoteIP |-> ip, Identity |-> identity, VerificationKey |-> key]

Packet(type, valid, pair, ts, port) ==
    [Type |-> type, valid |-> valid, Pair |-> pair, Timestamp |-> ts, Port |-> port]

\* A connection: what NewConnection stores, the peer address and leaf
\* certificate of its stream, the key under which the engine registered it,
\* whether its OnDisconnect compares the stored pointer, and its reader loop.
Connection(identity, ip, spki, key, guarded, loop) ==
    [DeviceId |-> identity.DeviceId, RemoteIdentity |-> identity, ip |-> ip,
     spki |-> spki, key |-> key, guarded |-> guarded, loop |-> loop,
     disconnects |-> 0]

\* The peers on the network, each with the identity it announces and the key
\* of the leaf certificate it presents: d1, a peer that announces d1 under
\* another name and with another certificate, and d2.
Peers ==
    {[identity |-> IdentityBody("d1", "n1", 1716), spki |-> <<48, 1>>],
     [identity |-> IdentityBody("d1", "n2", 1716), spki |-> <<48, 130, 1>>],
     [identity |-> IdentityBody("d2", "n1", 1716), spki |-> <<48, 1>>]}

\* The identities UDP datagrams carry: the peers' and our own.
Identities ==
    {p.identity : p \in Peers} \cup {IdentityBody(LocalDeviceId, "n1", 1716)}

\* ------------------------------------------------------------- maps
EmptyMap == [x \in {} |-> 0]

Put(m, k, v) == [x \in (DOMAIN m) \cup {k} |-> IF x = k THEN v ELSE m[x]]

Delete(m, k) == [x \in (DOMAIN m) \ {k} |-> m[x]]

\* ------------------------------------------------------------- effects
SaveEff(p) == [k |-> "save", paired |-> p]
EmitDiscovered(dev) == [k |-> "emit", event |-> "device_discovered", dev |-> dev]
EmitPairRequest(req) == [k |-> "emit", event |-> "pair_request", req |-> req]
EmitId(ev, id) == [k |-> "emit", event |-> ev, id |-> id]
\* network.Connect called with ip and port, and whether it returned a connection.
DialEff(ip, port, ok) == [k |-> "dial", ip |-> ip, port |-> port, ok |-> ok]

SendEff(c, type, pair, ok) ==
    [k |-> "send", conn |-> c, Type |-> type, Pair |-> pair, ok |-> ok]

\* ------------------------------------------------------------- verification key
\* bytes.Compare(a, b) < 0: lexicographic order of unsigned bytes, a proper
\* prefix being smaller.
RECURSIVE BytesLess(_, _)
BytesLess(a, b) ==
    IF b = <<>> THEN FALSE
    ELSE IF a = <<>> THEN TRUE
    ELSE IF Head(a) # Head(b) THEN Head(a) < Head(b)
    ELSE BytesLess(Tail(a), Tail(b))

\* fmt.Sprintf("%d", n) as ASCII bytes, with a minus sign for n < 0.
RECURSIVE Decimal(_)
Decimal(n) ==
    IF n < 0 THEN <<45>> \o Decimal(0 - n)
    ELSE IF n < 10 THEN <<48 + n>>
    ELSE Decimal(n \div 10) \o <<48 + (n % 10)>>

\* Mutant: the blobs are concatenated in argument order.
CombinedUnsorted(pubA, pubB, timestamp) ==
    pubA \o pubB \o Decimal(timestamp)

\* Mutant: the smaller blob comes first.
CombinedAscending(pubA, pubB, timestamp) ==
    (IF BytesLess(pubA, pubB) THEN pubA \o pubB ELSE pubB \o pubA)
        \o Decimal(timestamp)

\* The bytes GetVerificationKey hashes: larger blob, smaller blob, timestamp.
Combined(pubA, pubB, timestamp) ==
    (IF BytesLess(pubA, pubB) THEN pubB \o pubA ELSE pubA \o pubB)
        \o Decimal(timestamp)

\* The key is the upper-cased first 8 hex digits of SHA-256(combined); the
\* digest is kept symbolic, as a function of the bytes hashed.
GetVerificationKey(pubA, pubB, timestamp) ==
    <<"SHA256-8", Combined(pubA, pubB, timestamp)>>

\* ------------------------------------------------------------- state
VARIABLES
    discoveredDevices,  \* device id -> DiscoveredDevice
    pairedDevices,      \* device id -> PairedDeviceInfo
    sftpOffers,         \* device id -> port of the stored offer
    activeConns,        \* device id -> connection (index into conns)
    pendingPairing,     \* device ids with pendingPairing[id] = true
    conns,              \* every Connection created so far
    config,             \* pairedDevices as last written to config.json
    pinned,             \* history: device id -> leaf key presented when it was paired
    op,                 \* the last operation: name, arguments, values read, result
    trace,              \* the effects of the last operation, in program order
    steps               \* operations so far

\* The installation: the running process and the files and ports around it.
VARIABLES
    Identity,           \* e.Identity of the running engine
    configFile,         \* identity in config.json: <<>> when not loadable
    credentials,        \* cert.pem and key.pem load as a key pair
    listener,           \* port the server's listener is bound to, NoPort if none
    phase,              \* "stopped", "created", "starting", "listening", "failed"
    portsInUse,         \* TCP ports bound by other processes
    clock               \* engines generated so far (time.Now().UnixNano())

hostVars == <<Identity, configFile, credentials, listener, phase, portsInUse, clock>>

\* One connection with the goroutines that send on it.
VARIABLES
    mu,                 \* c.mu: the goroutine holding it, NoHolder when unlocked
    Conn,               \* c.Conn: out, the pieces written so far; err, its write error
    pc                  \* goroutine -> [at: where it is in SendPacket, n: packets done]

wireVars == <<mu, Conn, pc>>

\* The event bus with the goroutines its Emit calls start.
VARIABLES
    listeners,          \* e.listeners: event -> listeners in registration order
    busReaders,         \* goroutines holding the bus lock for reading
    goroutines,         \* Emit calls and the listener goroutines they started
    closures            \* listener values created so far

busVars == <<listeners, busReaders, goroutines, closures>>

\* One handshake's byte stream: the peer's bytes, the reader over them and
\* what the layer above has been given.
VARIABLES
    path,               \* reader: what reads the identity; sent: all the peer wrote;
                        \* residual: what the reader held when the identity was read
    stream,             \* bytes the peer wrote that no Read has returned yet
    buffer,             \* bytes a Read returned that the reader still holds
    line,               \* what the identity read returned
    rest,               \* bytes handed to the layer above, in order
    stage               \* "idle", "identity", "above", "done"

streamVars == <<path, stream, buffer, line, rest, stage>>

\* The engine's lock with the goroutines that take it.
VARIABLES
    engineMu,           \* e.mu: readers, the goroutines in RLock; writer, or NoHolder
    tasks               \* goroutine -> [fn: what it runs, at: where it is in it]

lockVars == <<engineMu, tasks>>

\* Two installations of this engine with a connection between them.
VARIABLES
    engines,            \* side -> that side's Engine, <<>> before they have met
    links,              \* side -> packets written to it that it has not read yet
    history             \* what the two sides' users called and what was emitted

peerVars == <<engines, links, history>>

\* When the stored SFTP offers arrived.
VARIABLES
    offerAge            \* device id -> seconds since its offer was stored

sideVars == <<busVars, streamVars, lockVars, peerVars, offerAge>>

\* What the engine's handlers work on; no step of the installation touches it.
handlerVars == <<discoveredDevices, pairedDevices, sftpOffers, activeConns,
                 pendingPairing, conns, config, pinned, trace, steps>>

vars == <<discoveredDevices, pairedDevices, sftpOffers, activeConns,
          pendingPairing, conns, config, pinned, op, trace, steps, hostVars,
          wireVars, sideVars>>

\* The engine's fields as one record, for the handlers below.
Engine ==
    [disc |-> discoveredDevices, paired |-> pairedDevices, sftp |-> sftpOffers,
     active |-> activeConns, pending |-> pendingPairing, conns |-> conns,
     config |-> config, pinned |-> pinned]

\* What a handler yields: the engine after it, its effects in order, its result.
Result(e, eff, res) == [e |-> e, eff |-> eff, res |-> res]

\* ------------------------------------------------------------- persistence
\* SaveConfig writes the paired map (and the identity) to config.json.
SaveConfig(e) == Result([e EXCEPT !.config = e.paired], <<SaveEff(e.paired)>>, "nil")

\* ------------------------------------------------------------- engine handlers
IsPaired(e, deviceId) == deviceId \in DOMAIN e.paired

IsDiscovered(e, deviceId) == deviceId \in DOMAIN e.disc

\* Mutant: a record already present is kept, the event only announced.
addDiscoveredDeviceKeepsFirst(e, identity, addr) ==
    LET dev == DiscoveredDevice(identity, addr)
        id == identity.DeviceId
    IN Result(IF id \in DOMAIN e.disc THEN e
              ELSE [e EXCEPT !.disc = Put(e.disc, id, dev)],
              <<EmitDiscovered(dev)>>, "nil")

\* Mutant: the config is saved on every discovery event of a paired device.
addDiscoveredDeviceAlwaysSaves(e, identity, addr) ==
    LET dev == DiscoveredDevice(identity, addr)
        id == identity.DeviceId
        changed == /\ id \in DOMAIN e.paired
                   /\ \/ e.paired[id].LastIP # addr.IP
                      \/ e.paired[id].Identity.DeviceName # identity.DeviceName
        e1 == [e EXCEPT !.disc = Put(e.disc, id, dev),
                        !.paired = IF changed
                                   THEN Put(e.paired, id,
                                            PairedDeviceInfo(identity, addr.IP, addr.Port))
                                   ELSE @]
        saved == IF id \in DOMAIN e.paired THEN SaveConfig(e1)
                 ELSE Result(e1, <<>>, "nil")
    IN Result(saved.e, saved.eff \o <<EmitDiscovered(dev)>>, "nil")

addDiscoveredDevice(e, identity, addr) ==
    LET dev == DiscoveredDevice(identity, addr)
        id == identity.DeviceId
        changed == /\ id \in DOMAIN e.paired
                   /\ \/ e.paired[id].LastIP # addr.IP
                      \/ e.paired[id].Identity.DeviceName # identity.DeviceName
        e1 == [e EXCEPT !.disc = Put(e.disc, id, dev),
                        !.paired = IF changed
                                   THEN Put(e.paired, id,
                                            PairedDeviceInfo(identity, addr.IP, addr.Port))
                                   ELSE @]
        saved == IF changed THEN SaveConfig(e1) ELSE Result(e1, <<>>, "nil")
    IN Result(saved.e, saved.eff \o <<EmitDiscovered(dev)>>, "nil")

AddDeviceManual(e, identity, ip, port) ==
    LET dev == DiscoveredDevice(identity, UDPAddr(ip, port))
    IN Result([e EXCEPT !.disc = Put(e.disc, identity.DeviceId, dev)],
              <<EmitDiscovered(dev)>>, "nil")

MarkAsPaired(e, deviceId) ==
    LET e1 == IF deviceId \in DOMAIN e.disc
              THEN [e EXCEPT !.paired =
                        Put(e.paired, deviceId,
                            PairedDeviceInfo(e.disc[deviceId].Identity,
                                             e.disc[deviceId].Addr.IP,
                                             e.disc[deviceId].Addr.Port))]
              ELSE e
        saved == SaveConfig(e1)
    IN Result(saved.e, saved.eff \o <<EmitId("pairing_changed", deviceId)>>, "nil")

\* Mutant: the pointer comparison inverted, so a connection's own entry stays.
OnDisconnectInboundInverted(e, c) ==
    LET deviceId == e.conns[c].key
    IN IF deviceId \in DOMAIN e.active /\ e.active[deviceId] # c
       THEN [e EXCEPT !.active = Delete(e.active, deviceId)]
       ELSE e

\* OnDisconnect as handleNewConnection wires it: only the same connection is removed.
OnDisconnectInbound(e, c) ==
    LET deviceId == e.conns[c].key
    IN IF deviceId \in DOMAIN e.active /\ e.active[deviceId] = c
       THEN [e EXCEPT !.active = Delete(e.active, deviceId)]
       ELSE e

\* Mutant: a disconnect drops every active connection.
OnDisconnectOutboundDropsAll(e, c) ==
    [e EXCEPT !.active = EmptyMap]

\* OnDisconnect as getOrConnect wires it: the entry of the device id is removed.
OnDisconnectOutbound(e, c) ==
    [e EXCEPT !.active = Delete(e.active, e.conns[c].key)]

handleNewConnection(e, conn) ==
    LET c == Len(e.conns) + 1
        e1 == [e EXCEPT !.active = Put(e.active, conn.DeviceId, c),
                        !.conns = Append(e.conns, conn)]
        addr == UDPAddr(conn.ip, conn.RemoteIdentity.TcpPort)
    IN addDiscoveredDevice(e1, conn.RemoteIdentity, addr)

\* network.Connect: the dial or the handshake fails, or the peer at ip:port
\* answers with an identity and a leaf certificate of its choosing.
ConnectOutcomes(e, ip) ==
    {[err |-> TRUE, ip |-> ip]} \cup
    (IF Len(e.conns) < MaxConns
     THEN {[err |-> FALSE, ip |-> ip, identity |-> p.identity, spki |-> p.spki] :
              p \in Peers}
     ELSE {})

\* Mutant: the paired record's address is preferred to the discovered one.
getOrConnectPrefersPaired(e, deviceId) ==
    IF deviceId \in DOMAIN e.active
    THEN {[e |-> e, conn |-> e.active[deviceId], err |-> "nil", eff |-> <<>>]}
    ELSE IF ~(deviceId \in DOMAIN e.disc \/ deviceId \in DOMAIN e.paired)
    THEN {[e |-> e, conn |-> NoConn, err |-> "device not found", eff |-> <<>>]}
    ELSE LET paired == deviceId \in DOMAIN e.paired
             ip == IF paired THEN e.paired[deviceId].LastIP
                   ELSE e.disc[deviceId].Addr.IP
             port == IF paired THEN e.paired[deviceId].LastPort
                     ELSE e.disc[deviceId].Identity.TcpPort
         IN IF ip = "" \/ port = 0
            THEN {[e |-> e, conn |-> NoConn, err |-> "missing address",
                   eff |-> <<>>]}
            ELSE {IF o.err
                  THEN [e |-> e, conn |-> NoConn, err |-> "connect failed",
                        eff |-> <<DialEff(ip, port, FALSE)>>]
                  ELSE [e |-> [e EXCEPT
                                 !.active = Put(e.active, deviceId, Len(e.conns) + 1),
                                 !.conns = Append(e.conns,
                                     Connection(o.identity, ip, o.spki, deviceId,
                                                FALSE, "running"))],
                        conn |-> Len(e.conns) + 1, err |-> "nil",
                        eff |-> <<DialEff(ip, port, TRUE)>>]
                  : o \in ConnectOutcomes(e, ip)}

\* getOrConnect: [e, conn, err, eff], conn = NoConn when err is set.
getOrConnect(e, deviceId) ==
    IF deviceId \in DOMAIN e.active
    THEN {[e |-> e, conn |-> e.active[deviceId], err |-> "nil", eff |-> <<>>]}
    ELSE IF ~(deviceId \in DOMAIN e.disc \/ deviceId \in DOMAIN e.paired)
    THEN {[e |-> e, conn |-> NoConn, err |-> "device not found", eff |-> <<>>]}
    ELSE LET discovered == deviceId \in DOMAIN e.disc
             ip == IF discovered THEN e.disc[deviceId].Addr.IP
                   ELSE e.paired[deviceId].LastIP
             port == IF discovered THEN e.disc[deviceId].Identity.TcpPort
                     ELSE e.paired[deviceId].LastPort
         IN IF ip = "" \/ port = 0
            THEN {[e |-> e, conn |-> NoConn, err |-> "missing address",
                   eff |-> <<>>]}
            ELSE {IF o.err
                  THEN [e |-> e, conn |-> NoConn, err |-> "connect failed",
                        eff |-> <<DialEff(ip, port, FALSE)>>]
                  ELSE [e |-> [e EXCEPT
                                 !.active = Put(e.active, deviceId, Len(e.conns) + 1),
                                 !.conns = Append(e.conns,
                                     Connection(o.identity, ip, o.spki, deviceId,
                                                FALSE, "running"))],
                        conn |-> Len(e.conns) + 1, err |-> "nil",
                        eff |-> <<DialEff(ip, port, TRUE)>>]
                  : o \in ConnectOutcomes(e, ip)}

\* Connection.SendPacket: one Write of the packet's JSON and a newline, which
\* the stream accepts or fails.
ConnSendPacket(c, pType, pair) ==
    {[eff |-> <<SendEff(c, pType, pair, ok)>>,
      err |-> IF ok THEN "nil" ELSE "write failed"] : ok \in BOOLEAN}

\* Engine.SendPacket
SendPacket(e, deviceId, pType, pair) ==
    UNION {IF g.err # "nil"
           THEN {Result(g.e, g.eff, g.err)}
           ELSE {Result(g.e, g.eff \o w.eff, w.err) :
                    w \in ConnSendPacket(g.conn, pType, pair)}
           : g \in getOrConnect(e, deviceId)}

Pair(e, deviceId) ==
    SendPacket([e EXCEPT !.pending = @ \cup {deviceId}], deviceId,
               "kdeconnect.pair", TRUE)

\* Mutant: the error of the best-effort send is returned to the caller.
UnpairPropagatesError(e, deviceId) ==
    IF deviceId \notin DOMAIN e.paired
    THEN {Result(e, <<>>, "device not paired")}
    ELSE LET e1 == [e EXCEPT !.paired = Delete(e.paired, deviceId),
                             !.pinned = Delete(e.pinned, deviceId)]
             saved == SaveConfig(e1)
             eff == saved.eff \o <<EmitId("pairing_changed", deviceId)>>
         IN {Result(r.e, eff \o r.eff, r.res) :
                r \in SendPacket(saved.e, deviceId, "kdeconnect.pair", FALSE)}

\* Mutant: no check that the device is paired.
UnpairUnchecked(e, deviceId) ==
    LET e1 == [e EXCEPT !.paired = Delete(e.paired, deviceId),
                        !.pinned = Delete(e.pinned, deviceId)]
        saved == SaveConfig(e1)
        eff == saved.eff \o <<EmitId("pairing_changed", deviceId)>>
    IN {Result(r.e, eff \o r.eff, "nil") :
           r \in SendPacket(saved.e, deviceId, "kdeconnect.pair", FALSE)}

\* Mutant: a device that is not paired is still sent the pair = false packet.
UnpairAlwaysAnswers(e, deviceId) ==
    IF deviceId \notin DOMAIN e.paired
    THEN {Result(r.e, r.eff, "device not paired") :
             r \in SendPacket(e, deviceId, "kdeconnect.pair", FALSE)}
    ELSE LET e1 == [e EXCEPT !.paired = Delete(e.paired, deviceId),
                             !.pinned = Delete(e.pinned, deviceId)]
             saved == SaveConfig(e1)
             eff == saved.eff \o <<EmitId("pairing_changed", deviceId)>>
         IN {Result(r.e, eff \o r.eff, "nil") :
                r \in SendPacket(saved.e, deviceId, "kdeconnect.pair", FALSE)}

Unpair(e, deviceId) ==
    IF deviceId \notin DOMAIN e.paired
    THEN {Result(e, <<>>, "device not paired")}
    ELSE LET e1 == [e EXCEPT !.paired = Delete(e.paired, deviceId),
                             !.pinned = Delete(e.pinned, deviceId)]
             saved == SaveConfig(e1)
             eff == saved.eff \o <<EmitId("pairing_changed", deviceId)>>
         IN {Result(r.e, eff \o r.eff, "nil") :
                r \in SendPacket(saved.e, deviceId, "kdeconnect.pair", FALSE)}

\* Mutant: the peer IP is not compared.
AcceptPairTargetsAnyIP(e, remoteIP) == {e.active[d] : d \in DOMAIN e.active}

\* The active connections AcceptPair's loop may stop at: map iteration order
\* is unspecified, so any connection with that peer IP.
AcceptPairTargets(e, remoteIP) ==
    {e.active[d] : d \in {x \in DOMAIN e.active : e.conns[e.active[x]].ip = remoteIP}}

AcceptPair(e, remoteIP) ==
    IF AcceptPairTargets(e, remoteIP) = {}
    THEN {Result(e, <<>>, "no connection")}
    ELSE UNION {{Result(e, w.eff, "sent") :
                    w \in ConnSendPacket(c, "kdeconnect.pair", TRUE)}
                : c \in AcceptPairTargets(e, remoteIP)}

\* Mutant: the peer is marked as paired whether or not pairing is pending.
handlePairTrueAutoPairs(e, c, p) ==
    LET conn == e.conns[c]
        deviceId == conn.DeviceId
        key == GetVerificationKey(LocalSPKI, conn.spki, p.Timestamp)
        a == addDiscoveredDevice(e, conn.RemoteIdentity,
                                 UDPAddr(conn.ip, conn.RemoteIdentity.TcpPort))
        m == MarkAsPaired([a.e EXCEPT !.pending = @ \ {deviceId}], deviceId)
    IN IF deviceId \in e.pending
       THEN Result(m.e, m.eff, "paired")
       ELSE Result(m.e,
                   a.eff \o m.eff \o <<EmitPairRequest(
                       PairRequest(conn.ip, conn.RemoteIdentity, key))>>,
                   "pair_request")

\* handlePacket's branch for a kdeconnect.pair packet with pair = true.
handlePairTrue(e, c, p) ==
    LET conn == e.conns[c]
        deviceId == conn.DeviceId
        remoteIP == conn.ip
        key == GetVerificationKey(LocalSPKI, conn.spki, p.Timestamp)
        exists == deviceId \in DOMAIN e.disc
        isPending == deviceId \in e.pending
    IN IF isPending
       THEN LET m == MarkAsPaired([e EXCEPT !.pending = @ \ {deviceId}], deviceId)
            IN Result([m.e EXCEPT !.pinned =
                          IF exists THEN Put(@, deviceId, conn.spki) ELSE @],
                      m.eff, "paired")
       ELSE LET a == IF ~exists
                     THEN addDiscoveredDevice(e, conn.RemoteIdentity,
                              UDPAddr(remoteIP, conn.RemoteIdentity.TcpPort))
                     ELSE Result(e, <<>>, "nil")
            IN Result(a.e,
                      a.eff \o <<EmitPairRequest(
                          PairRequest(remoteIP, conn.RemoteIdentity, key))>>,
                      "pair_request")

\* handlePacket, for packet p decoded on connection c.
handlePacket(e, c, p) ==
    LET conn == e.conns[c]
        deviceId == conn.DeviceId
    IN CASE p.Type = "kdeconnect.pair" ->
              IF ~p.valid THEN {Result(e, <<>>, "bad body")}
              ELSE IF p.Pair THEN {handlePairTrue(e, c, p)}
              ELSE {Result(r.e, r.eff, "unpair") : r \in Unpair(e, deviceId)}
         [] p.Type = "kdeconnect.ping" ->
              {Result(e, w.eff, "pong") : w \in ConnSendPacket(c, "kdeconnect.ping", FALSE)}
         [] p.Type = "kdeconnect.sftp" ->
              IF p.valid /\ p.Port # 0
              THEN {Result([e EXCEPT !.sftp = Put(@, deviceId, p.Port)],
                           <<EmitId("sftp_offer", deviceId)>>, "offer")}
              ELSE {Result(e, <<>>, "ignored")}
         [] OTHER -> {Result(e, <<>>, "ignored")}

\* StartLoop at a decode error or EOF: OnDisconnect, then return.
StartLoopError(e, c) ==
    LET e1 == IF e.conns[c].guarded THEN OnDisconnectInbound(e, c)
              ELSE OnDisconnectOutbound(e, c)
    IN [e1 EXCEPT !.conns[c].loop = "done",
                  !.conns[c].disconnects = @ + 1]

\* ------------------------------------------------------------- packets
PairPackets ==
    {Packet("kdeconnect.pair", TRUE, b, ts, 0) : b \in BOOLEAN, ts \in Timestamps}
        \cup {Packet("kdeconnect.pair", FALSE, FALSE, 0, 0)}

PingPackets == {Packet("kdeconnect.ping", TRUE, FALSE, 0, 0)}

SftpPackets ==
    {Packet("kdeconnect.sftp", TRUE, FALSE, 0, port) : port \in SftpPorts}
        \cup {Packet("kdeconnect.sftp", FALSE, FALSE, 0, 0)}

OtherPackets == {Packet(t, TRUE, FALSE, 0, 0) : t \in OtherTypes}

Packets == PairPackets \cup PingPackets \cup SftpPackets \cup OtherPackets

\* ------------------------------------------------------------- initial state
\* A connection nobody has sent on yet.
InitWire ==
    /\ mu = NoHolder
    /\ Conn = [out |-> <<>>, err |-> FALSE]
    /\ pc = [g \in 1..MaxSenders |-> [at |-> "idle", n |-> 0]]

\* NewEventEmitter: no listener registered, nothing emitted.
Events == {"sftp_offer", "device_discovered"}

InitBus ==
    /\ listeners = [event \in Events |-> <<>>]
    /\ busReaders = {}
    /\ goroutines = <<>>
    /\ closures = 0

\* No handshake under way.
InitStream ==
    /\ path = [reader |-> "none", sent |-> <<>>, residual |-> <<>>]
    /\ stream = <<>>
    /\ buffer = <<>>
    /\ line = <<>>
    /\ rest = <<>>
    /\ stage = "idle"

\* e.mu unlocked, no goroutine inside the engine.
InitLock ==
    /\ engineMu = [readers |-> {}, writer |-> NoHolder]
    /\ tasks = [g \in 1..MaxTasks |-> [fn |-> "none", at |-> "idle"]]

\* The two installations have not met; no offer is stored.
InitPeers ==
    /\ engines = <<>>
    /\ links = <<>>
    /\ history = [pings |-> 0, unpairs |-> 0, changed |-> <<>>, mutual |-> FALSE]
    /\ offerAge = EmptyMap

InitSide == InitBus /\ InitStream /\ InitLock /\ InitPeers

\* The installation once NewEngine and Start have run and the listener is bound.
InitStarted ==
    /\ Identity = IdentityBody(LocalDeviceId, "h1", MinPort)
    /\ configFile = <<Identity>>
    /\ credentials = TRUE
    /\ listener = MinPort
    /\ phase = "listening"
    /\ portsInUse = {}
    /\ clock = 1

\* LoadConfig: no paired device, one in the current schema, or one migrated
\* from the old schema (identity only, no address).
InitPaired ==
    {EmptyMap,
     Put(EmptyMap, "d1",
         PairedDeviceInfo(IdentityBody("d1", "n1", 1716), "10.0.0.2", 1716)),
     Put(EmptyMap, "d1", PairedDeviceInfo(IdentityBody("d1", "n1", 1716), "", 0))}

Init ==
    /\ discoveredDevices = EmptyMap
    /\ pairedDevices \in InitPaired
    /\ sftpOffers = EmptyMap
    /\ activeConns = EmptyMap
    /\ pendingPairing = {}
    /\ conns = <<>>
    /\ config = pairedDevices
    /\ pinned = EmptyMap
    /\ op = [name |-> "NewEngine", res |-> "nil"]
    /\ trace = <<>>
    /\ steps = 0
    /\ InitStarted
    /\ InitWire
    /\ InitSide

\* ------------------------------------------------------------- actions
\* The engine after a handler, with the call and its effects recorded.
Apply(r, o) ==
    /\ steps < MaxSteps
    /\ discoveredDevices' = r.e.disc
    /\ pairedDevices' = r.e.paired
    /\ sftpOffers' = r.e.sftp
    /\ activeConns' = r.e.active
    /\ pendingPairing' = r.e.pending
    /\ conns' = r.e.conns
    /\ config' = r.e.config
    /\ pinned' = r.e.pinned
    /\ op' = o
    /\ trace' = r.eff
    /\ steps' = steps + 1

\* A handler that works on the engine alone.
Commit(r, o) == Apply(r, o) /\ UNCHANGED <<hostVars, wireVars, sideVars>>

\* Whether a discovery event replaces a different record of the same device.
Replaces(identity, addr) ==
    /\ identity.DeviceId \in DOMAIN discoveredDevices
    /\ discoveredDevices[identity.DeviceId] # DiscoveredDevice(identity, addr)

\* Mutant: the callback forwards every identity datagram, its own included.
UdpIdentityUnfiltered(identity, addr) ==
    Commit(addDiscoveredDevice(Engine, identity, addr),
           [name |-> "UdpIdentity", identity |-> identity, addr |-> addr,
            res |-> "discovery", replaced |-> Replaces(identity, addr)])

\* Start's ListenDiscovery callback: an identity datagram from addr.
UdpIdentity(identity, addr) ==
    IF identity.DeviceId # LocalDeviceId
    THEN Commit(addDiscoveredDevice(Engine, identity, addr),
                [name |-> "UdpIdentity", identity |-> identity, addr |-> addr,
                 res |-> "discovery", replaced |-> Replaces(identity, addr)])
    ELSE Commit(Result(Engine, <<>>, "nil"),
                [name |-> "UdpIdentity", identity |-> identity, addr |-> addr,
                 res |-> "self", replaced |-> FALSE])

\* Server.handleConnection after a successful handshake: OnConnect, StartLoop.
InboundConnection(identity, ip, spki) ==
    /\ Len(conns) < MaxConns
    /\ Commit(handleNewConnection(Engine,
                  Connection(identity, ip, spki, identity.DeviceId, TRUE, "running")),
              [name |-> "InboundConnection", identity |-> identity,
               addr |-> UDPAddr(ip, identity.TcpPort), conn |-> Len(conns) + 1,
               res |-> "discovery",
               replaced |-> Replaces(identity, UDPAddr(ip, identity.TcpPort))])

\* The reader loop of connection c decodes packet p.
ReaderPacket(c, p) ==
    /\ conns[c].loop = "running"
    /\ \E r \in handlePacket(Engine, c, p) :
          Commit(r, [name |-> "handlePacket", conn |-> c, d |-> conns[c].DeviceId,
                     p |-> p, res |-> r.res,
                     isPending |-> conns[c].DeviceId \in pendingPairing,
                     exists |-> conns[c].DeviceId \in DOMAIN discoveredDevices,
                     wasPaired |-> conns[c].DeviceId \in DOMAIN pairedDevices])

\* The reader loop of connection c meets a decode error or EOF.
ReaderError(c) ==
    /\ conns[c].loop = "running"
    /\ Commit(Result(StartLoopError(Engine, c), <<>>, "nil"),
              [name |-> "OnDisconnect", conn |-> c, d |-> conns[c].key,
               stored |-> IF conns[c].key \in DOMAIN activeConns
                          THEN activeConns[conns[c].key] ELSE NoConn,
               res |-> "done"])

SendPacketCall(deviceId, pType) ==
    \E r \in SendPacket(Engine, deviceId, pType, FALSE) :
        Commit(r, [name |-> "SendPacket", d |-> deviceId, res |-> r.res])

PairCall(deviceId) ==
    \E r \in Pair(Engine, deviceId) :
        Commit(r, [name |-> "Pair", d |-> deviceId, res |-> r.res])

UnpairCall(deviceId) ==
    \E r \in Unpair(Engine, deviceId) :
        Commit(r, [name |-> "Unpair", d |-> deviceId, res |-> r.res,
                   wasPaired |-> deviceId \in DOMAIN pairedDevices])

AcceptPairCall(remoteIP) ==
    \E r \in AcceptPair(Engine, remoteIP) :
        Commit(r, [name |-> "AcceptPair", ip |-> remoteIP, res |-> r.res])

MarkAsPairedCall(deviceId) ==
    LET m == MarkAsPaired(Engine, deviceId)
    IN Commit(Result([m.e EXCEPT !.pinned =
                         IF deviceId \notin DOMAIN discoveredDevices THEN @
                         ELSE IF deviceId \in DOMAIN activeConns
                         THEN Put(@, deviceId, conns[activeConns[deviceId]].spki)
                         ELSE Delete(@, deviceId)],
                     m.eff, m.res),
              [name |-> "MarkAsPaired", d |-> deviceId, res |-> "nil",
               exists |-> deviceId \in DOMAIN discoveredDevices,
               wasPaired |-> deviceId \in DOMAIN pairedDevices])

AddDeviceManualCall(identity, ip, port) ==
    Commit(AddDeviceManual(Engine, identity, ip, port),
           [name |-> "AddDeviceManual", identity |-> identity,
            addr |-> UDPAddr(ip, port), res |-> "nil"])

Next ==
    \/ \E identity \in Identities, ip \in IPs, up \in UdpPorts :
          UdpIdentity(identity, UDPAddr(ip, up))
    \/ \E p \in Peers, ip \in IPs : InboundConnection(p.identity, ip, p.spki)
    \/ \E c \in DOMAIN conns, p \in Packets : ReaderPacket(c, p)
    \/ \E c \in DOMAIN conns : ReaderError(c)
    \/ \E d \in Devices : SendPacketCall(d, "kdeconnect.sftp.request")
    \/ \E d \in Devices : PairCall(d)
    \/ \E d \in Devices : UnpairCall(d)
    \/ \E ip \in IPs : AcceptPairCall(ip)
    \/ \E d \in Devices : MarkAsPairedCall(d)
    \/ \E p \in Peers, ip \in IPs :
          AddDeviceManualCall(p.identity, ip, p.identity.TcpPort)

Spec == Init /\ [][Next]_vars

\* ------------------------------------------------------------- the installation over restarts
\* fmt.Sprintf("fyne-%030x", time.Now().UnixNano()): one id per instant.
DeviceIdAt(t) == <<"fyne", t>>

NoIdentity == IdentityBody(<<>>, "", NoPort)

PortRange == MinPort..MaxPort

\* NewEngine's probe: the first port of the range it can listen on, 1716 if none.
ProbePort ==
    IF PortRange \subseteq portsInUse THEN MinPort
    ELSE CHOOSE p \in PortRange \ portsInUse :
            \A q \in PortRange \ portsInUse : p <= q

\* NewEngine: the identity of config.json is reused when the config and the
\* key pair both load; otherwise a new id, certificate and port are generated
\* and saved.
NewEngine(deviceName) ==
    /\ phase = "stopped" /\ clock < MaxRuns
    /\ IF configFile # <<>> /\ credentials
       THEN /\ Identity' = [configFile[1] EXCEPT !.DeviceName = deviceName]
            /\ configFile' = <<Identity'>>
            /\ UNCHANGED <<credentials, clock, handlerVars, wireVars, sideVars>>
       ELSE /\ clock' = clock + 1
            /\ Identity' = IdentityBody(DeviceIdAt(clock'), deviceName, ProbePort)
            /\ configFile' = <<Identity'>>
            /\ credentials' = TRUE
    /\ phase' = "created"
    /\ op' = [name |-> "NewEngine", res |-> "nil", deviceName |-> deviceName,
              loaded |-> configFile, hadCredentials |-> credentials]
    /\ UNCHANGED <<listener, portsInUse, handlerVars, wireVars, sideVars>>

\* Engine.Start: StartDiscovery advertises the identity, the server goroutine
\* is spawned.
Start ==
    /\ phase = "created"
    /\ phase' = "starting"
    /\ op' = [name |-> "Start", res |-> "nil"]
    /\ UNCHANGED <<Identity, configFile, credentials, listener,
                   portsInUse, clock, handlerVars, wireVars, sideVars>>

\* Server.Start: net.Listen on the identity's port; its error is only logged.
ServerStart ==
    /\ phase = "starting"
    /\ IF Identity.TcpPort \in portsInUse
       THEN listener' = NoPort /\ phase' = "failed"
       ELSE listener' = Identity.TcpPort /\ phase' = "listening"
    /\ op' = [name |-> "Server.Start", res |-> phase']
    /\ UNCHANGED <<Identity, configFile, credentials, portsInUse,
                   clock, handlerVars, wireVars, sideVars>>

\* The process ends.
Exit ==
    /\ phase \in {"listening", "failed"}
    /\ phase' = "stopped" /\ listener' = NoPort /\ Identity' = NoIdentity
    /\ op' = [name |-> "Exit", res |-> "nil"]
    /\ UNCHANGED <<configFile, credentials, portsInUse, clock, handlerVars, wireVars, sideVars>>

\* Another process binds or releases a port of the range.
OtherProcessBinds(p) ==
    /\ p \notin portsInUse /\ p # listener
    /\ portsInUse' = portsInUse \cup {p}
    /\ op' = [name |-> "OtherProcessBinds", res |-> "nil", port |-> p]
    /\ UNCHANGED <<Identity, configFile, credentials, listener,
                   phase, clock, handlerVars, wireVars, sideVars>>

OtherProcessReleases(p) ==
    /\ p \in portsInUse
    /\ portsInUse' = portsInUse \ {p}
    /\ op' = [name |-> "OtherProcessReleases", res |-> "nil", port |-> p]
    /\ UNCHANGED <<Identity, configFile, credentials, listener,
                   phase, clock, handlerVars, wireVars, sideVars>>

\* Between runs cert.pem or key.pem is lost, or config.json stops loading.
CredentialsLost ==
    /\ phase = "stopped" /\ credentials
    /\ credentials' = FALSE
    /\ op' = [name |-> "CredentialsLost", res |-> "nil"]
    /\ UNCHANGED <<Identity, configFile, listener, phase,
                   portsInUse, clock, handlerVars, wireVars, sideVars>>

ConfigLost ==
    /\ phase = "stopped" /\ configFile # <<>>
    /\ configFile' = <<>>
    /\ op' = [name |-> "ConfigLost", res |-> "nil"]
    /\ UNCHANGED <<Identity, credentials, listener, phase,
                   portsInUse, clock, handlerVars, wireVars, sideVars>>

\* First run: no config, no credentials, no engine.
InitInstall ==
    /\ discoveredDevices = EmptyMap
    /\ pairedDevices = EmptyMap
    /\ sftpOffers = EmptyMap
    /\ activeConns = EmptyMap
    /\ pendingPairing = {}
    /\ conns = <<>>
    /\ config = EmptyMap
    /\ pinned = EmptyMap
    /\ op = [name |-> "install", res |-> "nil"]
    /\ trace = <<>>
    /\ steps = 0
    /\ Identity = NoIdentity
    /\ configFile = <<>>
    /\ credentials = FALSE
    /\ listener = NoPort
    /\ phase = "stopped"
    /\ portsInUse = {}
    /\ clock = 0
    /\ InitWire
    /\ InitSide

NextInstall ==
    \/ \E deviceName \in Hostnames : NewEngine(deviceName)
    \/ Start
    \/ ServerStart
    \/ Exit
    \/ \E p \in PortRange : OtherProcessBinds(p)
    \/ \E p \in PortRange : OtherProcessReleases(p)
    \/ CredentialsLost
    \/ ConfigLost

SpecInstall == InitInstall /\ [][NextInstall]_vars

\* ------------------------------------------------------------- GetVerificationKey on its own
\* Public-key blobs: every byte string of up to MaxKeyLen bytes over KeyBytes,
\* so equal blobs and blobs that are a prefix of one another occur.
KeyBytes == {1, 48, 130}

RECURSIVE BytesUpTo(_)
BytesUpTo(n) ==
    IF n = 0 THEN {<<>>}
    ELSE LET shorter == BytesUpTo(n - 1)
         IN shorter \cup {Append(b, x) : b \in shorter, x \in KeyBytes}

KeyBlobs == BytesUpTo(MaxKeyLen)

KeyTimestamps == {0, 7, 1700000000, 0 - 15}

GetVerificationKeyCall(pubA, pubB, timestamp) ==
    /\ op.name = "install"
    /\ op' = [name |-> "GetVerificationKey", pubA |-> pubA, pubB |-> pubB,
              timestamp |-> timestamp,
              combined |-> Combined(pubA, pubB, timestamp),
              res |-> GetVerificationKey(pubA, pubB, timestamp)]
    /\ UNCHANGED <<handlerVars, hostVars, wireVars, sideVars>>

NextKey ==
    \E pubA \in KeyBlobs, pubB \in KeyBlobs, timestamp \in KeyTimestamps :
        GetVerificationKeyCall(pubA, pubB, timestamp)

SpecKey == InitInstall /\ [][NextKey]_vars

\* ------------------------------------------------------------- discovery targets
\* a | b on two bytes.
RECURSIVE BitOr(_, _)
BitOr(a, b) ==
    IF a = 0 THEN b
    ELSE IF b = 0 THEN a
    ELSE (IF a % 2 = 1 \/ b % 2 = 1 THEN 1 ELSE 0) + 2 * BitOr(a \div 2, b \div 2)

\* ^m on a byte.
Complement(m) == 255 - m

\* net.IP.String() of four bytes, as ASCII: decimal numbers joined by dots.
DottedQuad(ip) ==
    Decimal(ip[1]) \o <<46>> \o Decimal(ip[2]) \o <<46>> \o Decimal(ip[3])
        \o <<46>> \o Decimal(ip[4])

\* "255.255.255.255"
GlobalBroadcast == <<50, 53, 53, 46, 50, 53, 53, 46, 50, 53, 53, 46, 50, 53, 53>>

\* The inner loop over one interface's addresses: IPv4 networks only.
RECURSIVE AddrBroadcasts(_)
AddrBroadcasts(addrs) ==
    IF addrs = <<>> THEN <<>>
    ELSE LET a == Head(addrs)
         IN (IF ~a.v4 THEN <<>>
             ELSE <<DottedQuad([i \in 1..4 |->
                                   BitOr(a.ip[i], Complement(a.mask[i]))])>>)
                \o AddrBroadcasts(Tail(addrs))

\* The outer loop: interfaces that are down, cannot broadcast or whose
\* addresses cannot be read are skipped.
RECURSIVE IfaceBroadcasts(_)
IfaceBroadcasts(ifaces) ==
    IF ifaces = <<>> THEN <<>>
    ELSE LET iface == Head(ifaces)
         IN (IF ~iface.up \/ ~iface.broadcast \/ iface.addrsErr THEN <<>>
             ELSE AddrBroadcasts(iface.addrs))
                \o IfaceBroadcasts(Tail(ifaces))

\* Mutant: the global broadcast address is not appended.
getBroadcastAddressesDirectedOnly(ifaces, failed) ==
    IF failed THEN [broadcasts |-> <<>>, err |-> TRUE]
    ELSE [broadcasts |-> IfaceBroadcasts(ifaces), err |-> FALSE]

getBroadcastAddresses(ifaces, failed) ==
    IF failed THEN [broadcasts |-> <<>>, err |-> TRUE]
    ELSE [broadcasts |-> IfaceBroadcasts(ifaces) \o <<GlobalBroadcast>>,
          err |-> FALSE]

\* StartDiscovery's targets: the global broadcast alone when enumeration fails.
StartDiscoveryTargets(ifaces, failed) ==
    LET r == getBroadcastAddresses(ifaces, failed)
    IN IF r.err THEN <<GlobalBroadcast>> ELSE r.broadcasts

IPNet(ip, mask) == [ip |-> ip, mask |-> mask, v4 |-> TRUE]
IPv6Net == [ip |-> <<>>, mask |-> <<>>, v4 |-> FALSE]

IfaceAddrLists ==
    {<<>>,
     <<IPNet(<<192, 168, 1, 10>>, <<255, 255, 255, 0>>)>>,
     <<IPNet(<<172, 16, 5, 4>>, <<255, 255, 240, 0>>)>>,
     <<IPNet(<<10, 0, 0, 2>>, <<255, 0, 0, 0>>)>>,
     <<IPv6Net, IPNet(<<10, 0, 0, 3>>, <<255, 255, 255, 255>>)>>,
     <<IPNet(<<192, 168, 1, 10>>, <<255, 255, 255, 0>>),
       IPNet(<<10, 0, 0, 2>>, <<255, 255, 255, 252>>)>>}

\* Interfaces that are used, with each address list, and interfaces that are
\* skipped: down, not broadcast-capable, or with unreadable addresses.
Interfaces ==
    [up : {TRUE}, broadcast : {TRUE}, addrsErr : {FALSE}, addrs : IfaceAddrLists]
        \cup
    {[up |-> f.up, broadcast |-> f.broadcast, addrsErr |-> f.addrsErr,
      addrs |-> l] :
        f \in {[up |-> FALSE, broadcast |-> TRUE, addrsErr |-> FALSE],
                [up |-> TRUE, broadcast |-> FALSE, addrsErr |-> FALSE],
                [up |-> TRUE, broadcast |-> TRUE, addrsErr |-> TRUE]},
        l \in {<<IPNet(<<192, 168, 1, 10>>, <<255, 255, 255, 0>>)>>,
                <<IPNet(<<172, 16, 5, 4>>, <<255, 255, 240, 0>>)>>}}

RECURSIVE IfaceListsUpTo(_)
IfaceListsUpTo(n) ==
    IF n = 0 THEN {<<>>}
    ELSE LET shorter == IfaceListsUpTo(n - 1)
         IN shorter \cup {Append(l, i) : l \in shorter, i \in Interfaces}

StartDiscoveryCall(ifaces, failed) ==
    /\ op.name = "install"
    /\ op' = [name |-> "StartDiscovery", ifaces |-> ifaces, failed |-> failed,
              res |-> StartDiscoveryTargets(ifaces, failed)]
    /\ UNCHANGED <<handlerVars, hostVars, wireVars, sideVars>>

NextDiscovery ==
    \/ \E ifaces \in IfaceListsUpTo(MaxIfaces) : StartDiscoveryCall(ifaces, FALSE)
    \/ StartDiscoveryCall(<<>>, TRUE)

SpecDiscovery == InitInstall /\ [][NextDiscovery]_vars

\* ------------------------------------------------------------- concurrent SendPacket on one connection
\* What Conn.Write puts on the stream for packet n of goroutine g: its JSON,
\* then the newline appended to it.
Piece(g, n, part) == [g |-> g, n |-> n, part |-> part]

At(g, at) == [pc EXCEPT ![g].at = at]

\* Mutant: c.mu.Lock() does not wait for the holder.
LockUnguarded(g) ==
    /\ pc[g].at = "idle" /\ pc[g].n < MaxPackets
    /\ mu' = g
    /\ pc' = At(g, "marshal")
    /\ op' = [name |-> "Lock", g |-> g, res |-> "nil"]
    /\ UNCHANGED <<Conn, handlerVars, hostVars, sideVars>>

\* c.mu.Lock()
Lock(g) ==
    /\ pc[g].at = "idle" /\ pc[g].n < MaxPackets
    /\ mu = NoHolder
    /\ mu' = g
    /\ pc' = At(g, "marshal")
    /\ op' = [name |-> "Lock", g |-> g, res |-> "nil"]
    /\ UNCHANGED <<Conn, handlerVars, hostVars, sideVars>>

\* json.Marshal of the body and of the packet: an error returns at once.
Marshal(g) ==
    /\ pc[g].at = "marshal"
    /\ \E ok \in BOOLEAN :
          /\ pc' = At(g, IF ok THEN "write" ELSE "unlock")
          /\ op' = [name |-> "Marshal", g |-> g,
                    res |-> IF ok THEN "nil" ELSE "marshal failed"]
    /\ UNCHANGED <<mu, Conn, handlerVars, hostVars, sideVars>>

\* c.Conn.Write(data), first part: the JSON reaches the stream, or the write
\* fails; a connection whose write has failed accepts nothing more.
WriteJSON(g) ==
    /\ pc[g].at = "write"
    /\ \E ok \in BOOLEAN :
          IF ok /\ ~Conn.err
          THEN /\ Conn' = [Conn EXCEPT !.out = Append(@, Piece(g, pc[g].n + 1, "json"))]
               /\ pc' = At(g, "newline")
               /\ op' = [name |-> "Write", g |-> g, res |-> "json"]
          ELSE /\ Conn' = [Conn EXCEPT !.err = TRUE]
               /\ pc' = At(g, "unlock")
               /\ op' = [name |-> "Write", g |-> g, res |-> "write failed"]
    /\ UNCHANGED <<mu, handlerVars, hostVars, sideVars>>

\* c.Conn.Write(data), second part: the newline follows, or the write fails
\* with the JSON already on the stream.
WriteNewline(g) ==
    /\ pc[g].at = "newline"
    /\ \E ok \in BOOLEAN :
          IF ok
          THEN /\ Conn' = [Conn EXCEPT !.out = Append(@, Piece(g, pc[g].n + 1, "nl"))]
               /\ op' = [name |-> "Write", g |-> g, res |-> "nil"]
          ELSE /\ Conn' = [Conn EXCEPT !.err = TRUE]
               /\ op' = [name |-> "Write", g |-> g, res |-> "write failed"]
    /\ pc' = At(g, "unlock")
    /\ UNCHANGED <<mu, handlerVars, hostVars, sideVars>>

\* defer c.mu.Unlock()
Unlock(g) ==
    /\ pc[g].at = "unlock"
    /\ mu' = NoHolder
    /\ pc' = [pc EXCEPT ![g] = [at |-> "idle", n |-> @.n + 1]]
    /\ op' = [name |-> "Unlock", g |-> g, res |-> "nil"]
    /\ UNCHANGED <<Conn, handlerVars, hostVars, sideVars>>

NextWire ==
    \/ \E g \in 1..MaxSenders : Lock(g)
    \/ \E g \in 1..MaxSenders : Marshal(g)
    \/ \E g \in 1..MaxSenders : WriteJSON(g)
    \/ \E g \in 1..MaxSenders : WriteNewline(g)
    \/ \E g \in 1..MaxSenders : Unlock(g)

SpecWire == InitInstall /\ [][NextWire]_vars

\* ------------------------------------------------------------- the event bus
busOutside == <<hostVars, wireVars, streamVars, lockVars, peerVars, offerAge>>

\* What a listener does once called: return, block for ever, or register
\* another listener and return.
ListenerKinds == {"returns", "blocks", "callsOn"}

Listener(id, kind) == [id |-> id, kind |-> kind]

\* EventEmitter.On; its write lock is the guard of the actions that call it.
On(ls, event, l) == [ls EXCEPT ![event] = Append(@, l)]

\* EventEmitter.Off
Off(ls, event, l) == ls

\* Engine.ConnectSFTP as far as the engine and the bus go: the listeners after
\* it, the closures it made, what SendPacket did for the browse request, and
\* which offer the call took from its channel. An offer stored with a port is
\* put into the one-slot channel before the browse request, so it is the one
\* received; otherwise the call receives the offer that handlePacket stores
\* while it waits, or times out.
ConnectSFTP(e, ls, next, deviceId) ==
    LET dHandler == Listener(next + 1, "returns")
        waits == /\ deviceId \notin DOMAIN e.disc
                 /\ e.paired[deviceId].LastIP = ""
        ls1 == IF waits THEN On(ls, "device_discovered", dHandler) ELSE ls
        made1 == IF waits THEN 1 ELSE 0
        handler == Listener(next + made1 + 1, "returns")
        ls2 == On(ls1, "sftp_offer", handler)
        hasExisting == deviceId \in DOMAIN e.sftp /\ e.sftp[deviceId] # 0
        browse == SendPacket(e, deviceId, "kdeconnect.sftp.request", FALSE)
        offered(r) ==
            IF r.res # "nil" THEN {[e |-> r.e, res |-> r.res, took |-> "none"]}
            ELSE IF hasExisting
            THEN {[e |-> r.e, res |-> res, took |-> "stored"] :
                     res \in {"nil", "ssh dial failed"}}
            ELSE {[e |-> r.e, res |-> "timeout waiting for SFTP offer",
                   took |-> "none"]}
                 \cup {[e |-> [r.e EXCEPT !.sftp = Put(@, deviceId, port)],
                        res |-> res, took |-> "answer"] :
                           res \in {"nil", "ssh dial failed"},
                           port \in SftpPorts \ {0}}
        after == UNION {{[e |-> o.e, eff |-> r.eff, res |-> o.res, took |-> o.took,
                          ls |-> Off(ls2, "sftp_offer", handler),
                          made |-> made1 + 1] : o \in offered(r)} : r \in browse}
    IN IF deviceId \notin DOMAIN e.disc /\ ~IsPaired(e, deviceId)
       THEN {[e |-> e, eff |-> <<>>, res |-> "device not found and not paired",
              took |-> "none", ls |-> ls, made |-> 0]}
       ELSE IF waits
       THEN after \cup {[e |-> e, eff |-> <<>>, res |-> "device not found",
                         took |-> "none", ls |-> ls1, made |-> 1]}
       ELSE after

\* A caller registers a listener.
OnCall(event, kind) ==
    /\ busReaders = {}
    /\ closures < MaxListeners
    /\ closures' = closures + 1
    /\ listeners' = On(listeners, event, Listener(closures + 1, kind))
    /\ op' = [name |-> "On", event |-> event, l |-> closures + 1, res |-> "nil"]
    /\ UNCHANGED <<busReaders, goroutines, handlerVars, busOutside>>

\* A caller removes the listener registered at position i.
OffCall(event, i) ==
    /\ i \in DOMAIN listeners[event]
    /\ listeners' = Off(listeners, event, listeners[event][i])
    /\ op' = [name |-> "Off", event |-> event, l |-> listeners[event][i].id,
              res |-> "nil"]
    /\ UNCHANGED <<busReaders, goroutines, closures, handlerVars, busOutside>>

ConnectSFTPCall(deviceId) ==
    /\ busReaders = {}
    /\ \E r \in ConnectSFTP(Engine, listeners, closures, deviceId) :
        /\ closures + r.made <= MaxListeners
        /\ Apply(r, [name |-> "ConnectSFTP", d |-> deviceId, res |-> r.res])
        /\ listeners' = r.ls
        /\ closures' = closures + r.made
    /\ UNCHANGED <<busReaders, goroutines, busOutside>>

\* Emit, line 46: the read lock is taken.
EmitRLock(event) ==
    /\ Len(SelectSeq(goroutines, LAMBDA g : g.fn = "Emit")) < MaxEmits
    /\ goroutines' = Append(goroutines,
                            [fn |-> "Emit", event |-> event, i |-> 1, at |-> "loop"])
    /\ busReaders' = busReaders \cup {Len(goroutines) + 1}
    /\ op' = [name |-> "Emit", event |-> event, res |-> "nil"]
    /\ UNCHANGED <<listeners, closures, handlerVars, busOutside>>

\* Emit, line 51: go listener(data) for the next listener of the event.
EmitSpawn(t) ==
    /\ t \in DOMAIN goroutines
    /\ goroutines[t].fn = "Emit" /\ goroutines[t].at = "loop"
    /\ goroutines[t].i <= Len(listeners[goroutines[t].event])
    /\ goroutines' =
           Append([goroutines EXCEPT ![t].i = @ + 1],
                  [fn |-> "listener",
                   l |-> listeners[goroutines[t].event][goroutines[t].i],
                   by |-> t, at |-> "spawned"])
    /\ op' = [name |-> "go", t |-> t, res |-> "nil"]
    /\ UNCHANGED <<listeners, busReaders, closures, handlerVars, busOutside>>

\* Emit returns: the deferred RUnlock of line 47 runs.
EmitRUnlock(t) ==
    /\ t \in DOMAIN goroutines
    /\ goroutines[t].fn = "Emit" /\ goroutines[t].at = "loop"
    /\ goroutines[t].i > Len(listeners[goroutines[t].event])
    /\ goroutines' = [goroutines EXCEPT ![t].at = "returned"]
    /\ busReaders' = busReaders \ {t}
    /\ op' = [name |-> "RUnlock", t |-> t, res |-> "nil"]
    /\ UNCHANGED <<listeners, closures, handlerVars, busOutside>>

\* The scheduler starts a listener goroutine.
ListenerRuns(g) ==
    /\ g \in DOMAIN goroutines
    /\ goroutines[g].fn = "listener" /\ goroutines[g].at = "spawned"
    /\ goroutines' = [goroutines EXCEPT ![g].at = "running"]
    /\ op' = [name |-> "listener", g |-> g, res |-> "running"]
    /\ UNCHANGED <<listeners, busReaders, closures, handlerVars, busOutside>>

\* A running listener calls On: it waits for the write lock.
ListenerCallsOn(g) ==
    /\ g \in DOMAIN goroutines
    /\ goroutines[g].fn = "listener" /\ goroutines[g].at = "running"
    /\ goroutines[g].l.kind = "callsOn"
    /\ busReaders = {}
    /\ closures < MaxListeners
    /\ closures' = closures + 1
    /\ listeners' = On(listeners, "sftp_offer", Listener(closures + 1, "returns"))
    /\ goroutines' = [goroutines EXCEPT ![g].at = "done"]
    /\ op' = [name |-> "listener", g |-> g, res |-> "On"]
    /\ UNCHANGED <<busReaders, handlerVars, busOutside>>

ListenerReturns(g) ==
    /\ g \in DOMAIN goroutines
    /\ goroutines[g].fn = "listener" /\ goroutines[g].at = "running"
    /\ goroutines[g].l.kind = "returns"
    /\ goroutines' = [goroutines EXCEPT ![g].at = "done"]
    /\ op' = [name |-> "listener", g |-> g, res |-> "done"]
    /\ UNCHANGED <<listeners, busReaders, closures, handlerVars, busOutside>>

NextBus ==
    \/ \E event \in Events, kind \in ListenerKinds : OnCall(event, kind)
    \/ \E event \in Events, i \in 1..MaxListeners : OffCall(event, i)
    \/ \E deviceId \in Devices : ConnectSFTPCall(deviceId)
    \/ \E event \in Events : EmitRLock(event)
    \/ \E t \in 1..(MaxEmits * (MaxListeners + 1)) : EmitSpawn(t)
    \/ \E t \in 1..(MaxEmits * (MaxListeners + 1)) : EmitRUnlock(t)
    \/ \E g \in 1..(MaxEmits * (MaxListeners + 1)) : ListenerRuns(g)
    \/ \E g \in 1..(MaxEmits * (MaxListeners + 1)) : ListenerCallsOn(g)
    \/ \E g \in 1..(MaxEmits * (MaxListeners + 1)) : ListenerReturns(g)

SpecBus == Init /\ [][NextBus]_vars

\* ------------------------------------------------------------- the engine's lock
lockOutside == <<sftpOffers, activeConns, pendingPairing, conns, pinned, trace,
                 steps, hostVars, wireVars, busVars, streamVars, peerVars, offerAge>>

Idle == [fn |-> "none", at |-> "idle"]

\* The Go runtime has not stopped the process.
Alive == \A g \in 1..MaxTasks : tasks[g].at # "fatal"

\* A goroutine is inside a read, resp. a write, of one of the engine's maps.
Reads(g) == tasks[g].at \in {"rlocked", "marshalling"}
Writes(g) == tasks[g].at = "locked"

\* The discovery listener calls addDiscoveredDevice on goroutine g.
GoAddDiscoveredDevice(g, identity, addr) ==
    /\ Alive
    /\ tasks[g] = Idle
    /\ tasks' = [tasks EXCEPT ![g] = [fn |-> "addDiscoveredDevice", at |-> "Lock",
                                      identity |-> identity, addr |-> addr]]
    /\ op' = [name |-> "addDiscoveredDevice", g |-> g, res |-> "called"]
    /\ UNCHANGED <<discoveredDevices, pairedDevices, config, engineMu, lockOutside>>

\* The interface calls IsPaired on goroutine g.
GoIsPaired(g, deviceId) ==
    /\ Alive
    /\ tasks[g] = Idle
    /\ tasks' = [tasks EXCEPT ![g] = [fn |-> "IsPaired", at |-> "RLock",
                                      d |-> deviceId]]
    /\ op' = [name |-> "IsPaired", g |-> g, res |-> "called"]
    /\ UNCHANGED <<discoveredDevices, pairedDevices, config, engineMu, lockOutside>>

\* e.mu.Lock(), core.go line 403
TaskLock(g) ==
    /\ Alive
    /\ tasks[g].at = "Lock"
    /\ engineMu.writer = NoHolder /\ engineMu.readers = {}
    /\ engineMu' = [engineMu EXCEPT !.writer = g]
    /\ tasks' = [tasks EXCEPT ![g].at = "locked"]
    /\ op' = [name |-> "Lock", g |-> g, res |-> "nil"]
    /\ UNCHANGED <<discoveredDevices, pairedDevices, config, lockOutside>>

\* addDiscoveredDevice, lines 404-417: the writes to the two maps.
TaskWrite(g) ==
    /\ Alive
    /\ tasks[g].at = "locked"
    /\ LET r == addDiscoveredDevice(Engine, tasks[g].identity, tasks[g].addr)
       IN /\ discoveredDevices' = r.e.disc
          /\ pairedDevices' = r.e.paired
          /\ tasks' = [tasks EXCEPT ![g] =
                 [fn |-> "addDiscoveredDevice", at |-> "written",
                  changed |-> r.e.paired # pairedDevices]]
    /\ op' = [name |-> "write", g |-> g, res |-> "nil"]
    /\ UNCHANGED <<config, engineMu, lockOutside>>

\* e.mu.Unlock(), line 418, and the test of line 420.
TaskUnlock(g) ==
    /\ Alive
    /\ tasks[g].at = "written"
    /\ engineMu' = [engineMu EXCEPT !.writer = NoHolder]
    /\ tasks' = [tasks EXCEPT ![g] =
           IF tasks[g].changed THEN [fn |-> "SaveConfig", at |-> "RLock"]
           ELSE Idle]
    /\ op' = [name |-> "Unlock", g |-> g, res |-> "nil"]
    /\ UNCHANGED <<discoveredDevices, pairedDevices, config, lockOutside>>

\* e.mu.RLock() of IsPaired and of SaveConfig (part_002 line 33)
TaskRLock(g) ==
    /\ Alive
    /\ tasks[g].at = "RLock"
    /\ engineMu.writer = NoHolder
    /\ engineMu' = [engineMu EXCEPT !.readers = @ \cup {g}]
    /\ tasks' = [tasks EXCEPT ![g].at = "rlocked"]
    /\ op' = [name |-> "RLock", g |-> g, res |-> "nil"]
    /\ UNCHANGED <<discoveredDevices, pairedDevices, config, lockOutside>>

\* RUnlock: IsPaired returns what it read; SaveConfig goes on with config,
\* which holds the map e.pairedDevices itself (part_002 lines 34-38).
TaskRUnlock(g) ==
    /\ Alive
    /\ tasks[g].at = "rlocked"
    /\ engineMu' = [engineMu EXCEPT !.readers = @ \ {g}]
    /\ tasks' = [tasks EXCEPT ![g] =
           IF tasks[g].fn = "IsPaired" THEN Idle
           ELSE [fn |-> "SaveConfig", at |-> "marshal"]]
    /\ op' = [name |-> "RUnlock", g |-> g,
              res |-> IF tasks[g].fn = "IsPaired"
                      THEN IsPaired(Engine, tasks[g].d) ELSE "nil"]
    /\ UNCHANGED <<discoveredDevices, pairedDevices, config, lockOutside>>

\* json.MarshalIndent(config), part_002 line 40: it starts to range over the map.
MarshalBegins(g) ==
    /\ Alive
    /\ tasks[g].at = "marshal"
    /\ tasks' = [tasks EXCEPT ![g] = [fn |-> "SaveConfig", at |-> "marshalling",
                                      data |-> pairedDevices]]
    /\ op' = [name |-> "MarshalIndent", g |-> g, res |-> "begins"]
    /\ UNCHANGED <<discoveredDevices, pairedDevices, config, engineMu, lockOutside>>

\* MarshalIndent is through. When the map was written meanwhile it has seen
\* the entries of before or of after the write, or the runtime has stopped
\* the process (concurrent map iteration and map write).
MarshalEnds(g) ==
    /\ Alive
    /\ tasks[g].at = "marshalling"
    /\ \E out \in {"before", "after", "fatal"} :
        /\ out # "after" => tasks[g].data # pairedDevices
        /\ tasks' = [tasks EXCEPT ![g] =
               IF out = "fatal" THEN [fn |-> "SaveConfig", at |-> "fatal"]
               ELSE [fn |-> "SaveConfig", at |-> "marshalled",
                     data |-> IF out = "before" THEN tasks[g].data
                              ELSE pairedDevices]]
        /\ op' = [name |-> "MarshalIndent", g |-> g, res |-> out]
    /\ UNCHANGED <<discoveredDevices, pairedDevices, config, engineMu, lockOutside>>

\* os.WriteFile, part_002 line 45
WriteFile(g) ==
    /\ Alive
    /\ tasks[g].at = "marshalled"
    /\ config' = tasks[g].data
    /\ tasks' = [tasks EXCEPT ![g] = Idle]
    /\ op' = [name |-> "WriteFile", g |-> g, res |-> "nil"]
    /\ UNCHANGED <<discoveredDevices, pairedDevices, engineMu, lockOutside>>

NextLock ==
    \/ \E g \in 1..MaxTasks, p \in Peers, ip \in IPs :
           GoAddDiscoveredDevice(g, p.identity, UDPAddr(ip, MinPort))
    \/ \E g \in 1..MaxTasks, deviceId \in Devices : GoIsPaired(g, deviceId)
    \/ \E g \in 1..MaxTasks : TaskLock(g)
    \/ \E g \in 1..MaxTasks : TaskWrite(g)
    \/ \E g \in 1..MaxTasks : TaskUnlock(g)
    \/ \E g \in 1..MaxTasks : TaskRLock(g)
    \/ \E g \in 1..MaxTasks : TaskRUnlock(g)
    \/ \E g \in 1..MaxTasks : MarshalBegins(g)
    \/ \E g \in 1..MaxTasks : MarshalEnds(g)
    \/ \E g \in 1..MaxTasks : WriteFile(g)

SpecLock == Init /\ [][NextLock]_vars

\* ------------------------------------------------------------- handshake byte streams
streamOutside == <<handlerVars, hostVars, wireVars, busVars, lockVars, peerVars,
                   offerAge>>

\* The bytes of a packet on the wire: '{', one byte of content, '}', '\n'.
Newline == 10
OpenBrace == 123
CloseBrace == 125

PacketBytes(j) == <<OpenBrace, 48 + j, CloseBrace, Newline>>

\* The identity packet followed by packets 1..n, as the peer writes them.
RECURSIVE Written(_)
Written(n) == IF n = 0 THEN PacketBytes(0) ELSE Written(n - 1) \o PacketBytes(n)

\* The three readers of an identity packet: bufio.Reader over the accepted
\* socket, kept inside BufferedConn; bufio.Reader over tlsConn in Connect;
\* json.Decoder over tlsConn in handleConnection.
Readers == {"BufferedConn", "bufio.Reader", "json.Decoder"}

\* ReadBytes('\n') returns with the newline, Decode with the end of the value.
Delimiter(reader) == IF reader = "json.Decoder" THEN CloseBrace ELSE Newline

Holds(bytes, b) == \E i \in DOMAIN bytes : bytes[i] = b

First(bytes, b) == CHOOSE i \in DOMAIN bytes :
                       bytes[i] = b /\ \A j \in 1..(i - 1) : bytes[j] # b

Take(bytes, k) == SubSeq(bytes, 1, k)
Drop(bytes, k) == SubSeq(bytes, k + 1, Len(bytes))

\* json.Decoder.Decode in the loop of StartLoop: the values it yields from
\* the bytes it was given, up to an incomplete or malformed one.
RECURSIVE Decoded(_)
Decoded(bytes) ==
    IF bytes = <<>> THEN <<>>
    ELSE IF bytes[1] = Newline THEN Decoded(Tail(bytes))
    ELSE IF bytes[1] = OpenBrace /\ Holds(bytes, CloseBrace)
    THEN <<Take(bytes, First(bytes, CloseBrace))>>
             \o Decoded(Drop(bytes, First(bytes, CloseBrace)))
    ELSE <<>>

\* Mutant: Read goes to the embedded net.Conn, past the reader.
BufferedConnReadRaw(buf, str, k, j) ==
    [buffer |-> buf, stream |-> Drop(str, k), out |-> Take(str, k)]

\* BufferedConn.Read, that is bufio.Reader.Read: from the buffer while it
\* holds bytes; else one Read of k bytes from the socket of which j fit into
\* the caller's slice.
BufferedConnRead(buf, str, k, j) ==
    IF buf # <<>>
    THEN [buffer |-> Drop(buf, j), stream |-> str, out |-> Take(buf, j)]
    ELSE [buffer |-> SubSeq(str, j + 1, k), stream |-> Drop(str, k),
          out |-> Take(str, j)]

\* A handshake reaches its identity read; the peer has written its identity
\* packet and n packets after it.
IdentityReadBegins(reader, n) ==
    /\ stage = "idle"
    /\ path' = [reader |-> reader, sent |-> Written(n), residual |-> <<>>]
    /\ stream' = Written(n)
    /\ stage' = "identity"
    /\ op' = [name |-> "handshake", reader |-> reader, n |-> n, res |-> "nil"]
    /\ UNCHANGED <<buffer, line, rest, streamOutside>>

\* The reader fills its buffer: one Read of the transport returns k bytes.
Fill(k) ==
    /\ stage = "identity"
    /\ ~Holds(buffer, Delimiter(path.reader))
    /\ k \in 1..Len(stream)
    /\ buffer' = buffer \o Take(stream, k)
    /\ stream' = Drop(stream, k)
    /\ op' = [name |-> "fill", k |-> k, res |-> "nil"]
    /\ UNCHANGED <<path, line, rest, stage, streamOutside>>

\* ReadBytes or Decode returns the identity packet; what the reader has read
\* beyond it stays in the reader.
IdentityRead ==
    /\ stage = "identity"
    /\ Holds(buffer, Delimiter(path.reader))
    /\ LET i == First(buffer, Delimiter(path.reader))
       IN /\ line' = Take(buffer, i)
          /\ buffer' = Drop(buffer, i)
          /\ path' = [path EXCEPT !.residual = Drop(buffer, i)]
    /\ stage' = "above"
    /\ op' = [name |-> "identity", res |-> "nil"]
    /\ UNCHANGED <<stream, rest, streamOutside>>

\* The layer above reads: TLS through BufferedConn.Read in the inbound
\* handshake; StartLoop's own json.NewDecoder(c.Conn), which reads tlsConn,
\* after Connect and after handleConnection.
AboveRead(k, j) ==
    /\ stage = "above"
    /\ IF path.reader = "BufferedConn"
       THEN /\ IF buffer # <<>> THEN j \in 1..Len(buffer) /\ k = j
               ELSE k \in 1..Len(stream) /\ j \in 1..k
            /\ LET r == BufferedConnRead(buffer, stream, k, j)
               IN /\ buffer' = r.buffer
                  /\ stream' = r.stream
                  /\ rest' = rest \o r.out
       ELSE /\ k \in 1..Len(stream) /\ j = k
            /\ rest' = rest \o Take(stream, k)
            /\ stream' = Drop(stream, k)
            /\ UNCHANGED buffer
    /\ op' = [name |-> "Read", k |-> k, j |-> j, res |-> "nil"]
    /\ UNCHANGED <<path, line, stage, streamOutside>>

\* The layer above has read all there is for it to read.
EndOfStream ==
    /\ stage = "above"
    /\ stream = <<>>
    /\ path.reader = "BufferedConn" => buffer = <<>>
    /\ stage' = "done"
    /\ op' = [name |-> "Read", k |-> 0, j |-> 0, res |-> "EOF"]
    /\ UNCHANGED <<path, stream, buffer, line, rest, streamOutside>>

NextStream ==
    \/ \E reader \in Readers, n \in 0..MaxAfter : IdentityReadBegins(reader, n)
    \/ \E k \in 1..(4 * (MaxAfter + 1)) : Fill(k)
    \/ IdentityRead
    \/ \E k, j \in 1..(4 * (MaxAfter + 1)) : AboveRead(k, j)
    \/ EndOfStream

SpecStream == InitInstall /\ [][NextStream]_vars

\* ------------------------------------------------------------- handshakes
\* The steps of network.Connect, in the order of the code.
ConnectSteps ==
    <<"dial", "plain identity write", "tls handshake", "encrypted identity write",
      "encrypted identity read", "encrypted identity parse">>

\* The steps of Server.handleConnection; the last two are run for a peer of
\* protocol version 8 or more.
HandleConnectionSteps ==
    <<"plain identity read", "plain identity parse", "tls handshake",
      "encrypted identity write", "encrypted identity read",
      "encrypted identity parse">>

Range(s) == {s[i] : i \in DOMAIN s}

ProtocolVersions == {7, 8}

\* network.Connect with the step that fails, "none" when none does: the
\* error, whether a transport was opened and whether it was closed, and what
\* the Connection is built from.
Connect(ip, port, peer, failAt) ==
    IF failAt = "dial"
    THEN [err |-> failAt, opened |-> FALSE, closed |-> FALSE, conn |-> <<>>]
    ELSE IF failAt \in Range(ConnectSteps)
    THEN [err |-> failAt, opened |-> TRUE, closed |-> TRUE, conn |-> <<>>]
    ELSE [err |-> "nil", opened |-> TRUE, closed |-> FALSE,
          conn |-> <<[identity |-> peer.identity, spki |-> peer.spki, ip |-> ip]>>]

\* The step of handleConnection that fails for this peer, if any.
Failing(version, failAt) ==
    IF failAt \notin Range(HandleConnectionSteps) THEN "none"
    ELSE IF version < 8 /\ failAt \in {"encrypted identity read",
                                       "encrypted identity parse"}
    THEN "none"
    ELSE failAt

\* Mutant: OnConnect is called as soon as the TLS handshake is through.
handleConnectionRegistersEarly(e, peer, ip, version, failAt) ==
    LET failed == Failing(version, failAt)
        conn == Connection(peer.identity, ip, peer.spki, peer.identity.DeviceId,
                           TRUE, "running")
        r == handleNewConnection(e, conn)
    IN IF failed \in {"plain identity read", "plain identity parse", "tls handshake"}
       THEN [e |-> e, eff |-> <<>>, res |-> failed, closed |-> TRUE]
       ELSE [e |-> r.e, eff |-> r.eff, res |-> IF failed = "none" THEN "nil" ELSE failed,
             closed |-> failed # "none"]

\* Server.handleConnection: every failing step returns, and the deferred
\* conn.Close() runs; else OnConnect registers the Connection and StartLoop
\* reads from it.
handleConnection(e, peer, ip, version, failAt) ==
    LET failed == Failing(version, failAt)
        conn == Connection(peer.identity, ip, peer.spki, peer.identity.DeviceId,
                           TRUE, "running")
        r == handleNewConnection(e, conn)
    IN IF failed # "none"
       THEN [e |-> e, eff |-> <<>>, res |-> failed, closed |-> TRUE]
       ELSE [e |-> r.e, eff |-> r.eff, res |-> "nil", closed |-> FALSE]

ConnectCall(ip, peer, failAt) ==
    /\ failAt \in Range(ConnectSteps) \cup {"none"}
    /\ LET r == Connect(ip, peer.identity.TcpPort, peer, failAt)
       IN Commit(Result(Engine, <<>>, r.err),
                 [name |-> "Connect", ip |-> ip, failAt |-> failAt, res |-> r.err,
                  opened |-> r.opened, closed |-> r.closed, conn |-> r.conn])

HandleConnectionCall(peer, ip, version, failAt) ==
    /\ Len(conns) < MaxConns
    /\ LET r == handleConnection(Engine, peer, ip, version, failAt)
       IN Commit(r, [name |-> "handleConnection", identity |-> peer.identity,
                     ip |-> ip, version |-> version, failAt |-> failAt,
                     res |-> r.res, closed |-> r.closed])

NextHandshake ==
    \/ \E ip \in IPs, peer \in Peers, failAt \in Range(ConnectSteps) \cup {"none"} :
           ConnectCall(ip, peer, failAt)
    \/ \E peer \in Peers, ip \in IPs, version \in ProtocolVersions,
          failAt \in Range(HandleConnectionSteps) \cup {"none"} :
           HandleConnectionCall(peer, ip, version, failAt)
    \/ \E deviceId \in Devices, pType \in OtherTypes : SendPacketCall(deviceId, pType)

SpecHandshake == Init /\ [][NextHandshake]_vars

\* ------------------------------------------------------------- config.json
\* A JSON object is a function from its keys; Field is what json.Unmarshal
\* finds for a struct field: the key's value, or the zero value left in place.
Field(obj, key, zero) == IF key \in DOMAIN obj THEN obj[key] ELSE zero

NoObject == [x \in {} |-> 0]

MarshalIdentity(identity) ==
    [deviceId |-> identity.DeviceId, deviceName |-> identity.DeviceName,
     tcpPort |-> identity.TcpPort]

UnmarshalIdentity(obj) ==
    IdentityBody(Field(obj, "deviceId", ""), Field(obj, "deviceName", ""),
                 Field(obj, "tcpPort", 0))

MarshalPairedDeviceInfo(info) ==
    [identity |-> MarshalIdentity(info.Identity), lastIP |-> info.LastIP,
     lastPort |-> info.LastPort]

UnmarshalPairedDeviceInfo(obj) ==
    PairedDeviceInfo(UnmarshalIdentity(Field(obj, "identity", NoObject)),
                     Field(obj, "lastIP", ""), Field(obj, "lastPort", 0))

\* json.MarshalIndent(Config{Identity, PairedDevices}) in SaveConfig
MarshalConfig(identity, paired) ==
    [identity |-> MarshalIdentity(identity),
     pairedDevices |-> [k \in DOMAIN paired |-> MarshalPairedDeviceInfo(paired[k])]]

\* A config.json of the older schema: the values are identity objects.
MarshalOldConfig(identity, old) ==
    [identity |-> MarshalIdentity(identity),
     pairedDevices |-> [k \in DOMAIN old |-> MarshalIdentity(old[k])]]

\* Engine.LoadConfig on an engine whose paired map is paired: the identity
\* and the paired map after it.
LoadConfig(paired, file) ==
    LET raw == Field(file, "pairedDevices", NoObject)
        newFormat == [k \in DOMAIN raw |-> UnmarshalPairedDeviceInfo(raw[k])]
        isNew == \A k \in DOMAIN newFormat : newFormat[k].Identity.DeviceId # ""
        oldFormat == [k \in DOMAIN raw |-> UnmarshalIdentity(raw[k])]
    IN [Identity |-> UnmarshalIdentity(Field(file, "identity", NoObject)),
        paired |-> IF "pairedDevices" \notin DOMAIN file THEN paired
                   ELSE IF isNew /\ DOMAIN newFormat # {} THEN newFormat
                   ELSE [k \in DOMAIN paired \cup DOMAIN oldFormat |->
                            IF k \in DOMAIN oldFormat
                            THEN PairedDeviceInfo(oldFormat[k], "", 0)
                            ELSE paired[k]]]

\* A peer that announces an identity without a device id.
Anonymous == IdentityBody("", "n1", 1716)

\* The maps of an older config.json.
OldConfigs ==
    UNION {[S -> {p.identity : p \in Peers}] : S \in SUBSET Devices}

\* The process is started again: NewEngine makes empty maps and LoadConfig
\* reads the config.json that SaveConfig wrote last.
Restart ==
    /\ op.name # "LoadConfig"
    /\ LET file == MarshalConfig(Identity, config)
           loaded == LoadConfig(EmptyMap, file)
       IN /\ Apply(Result([disc |-> EmptyMap, paired |-> loaded.paired,
                           sftp |-> EmptyMap, active |-> EmptyMap, pending |-> {},
                           conns |-> <<>>, config |-> config, pinned |-> pinned],
                          <<>>, "nil"),
                   [name |-> "Restart", file |-> file, res |-> "nil"])
          /\ Identity' = loaded.Identity
    /\ UNCHANGED <<configFile, credentials, listener, phase, portsInUse, clock,
                   wireVars, sideVars>>

\* LoadConfig reads a config.json of the older schema.
LoadOldConfig(old) ==
    /\ op.name = "NewEngine"
    /\ LET file == MarshalOldConfig(Identity, old)
       IN op' = [name |-> "LoadConfig", old |-> old, file |-> file,
                 loaded |-> LoadConfig(EmptyMap, file), res |-> "nil"]
    /\ UNCHANGED <<handlerVars, hostVars, wireVars, sideVars>>

NextConfig ==
    \/ \E identity \in Identities \cup {Anonymous}, ip \in IPs :
           UdpIdentity(identity, UDPAddr(ip, MinPort))
    \/ \E deviceId \in Devices \cup {""} : MarkAsPairedCall(deviceId)
    \/ \E deviceId \in Devices \cup {""} : UnpairCall(deviceId)
    \/ Restart
    \/ \E old \in OldConfigs : LoadOldConfig(old)

SpecConfig == Init /\ [][NextConfig]_vars

\* ------------------------------------------------- concurrent getOrConnect calls
dialOutside == <<discoveredDevices, pairedDevices, sftpOffers, pendingPairing,
                 config, pinned, trace, steps, engineMu, hostVars, wireVars,
                 busVars, streamVars, peerVars, offerAge>>

\* A goroutine calls Engine.SendPacket(deviceId, ...), which enters getOrConnect.
GoSendPacket(g, deviceId) ==
    /\ tasks[g] = Idle
    /\ tasks' = [tasks EXCEPT ![g] = [fn |-> "getOrConnect", at |-> "lookup",
                                      deviceId |-> deviceId]]
    /\ op' = [name |-> "GoSendPacket", g |-> g, deviceId |-> deviceId]
    /\ UNCHANGED <<activeConns, conns, dialOutside>>

\* getOrConnect's first read-locked section: an active connection is returned
\* and written to; otherwise the lock is dropped and the call goes on.
DialLookup(g) ==
    /\ tasks[g].fn = "getOrConnect" /\ tasks[g].at = "lookup"
    /\ IF tasks[g].deviceId \in DOMAIN activeConns
       THEN /\ tasks' = [tasks EXCEPT ![g] = Idle]
            /\ op' = [name |-> "DialLookup", g |-> g, res |-> "existing",
                      conn |-> activeConns[tasks[g].deviceId]]
       ELSE /\ tasks' = [tasks EXCEPT ![g].at = "resolve"]
            /\ op' = [name |-> "DialLookup", g |-> g, res |-> "absent",
                      conn |-> NoConn]
    /\ UNCHANGED <<activeConns, conns, dialOutside>>

\* The second read-locked section and the choice of the address to dial.
DialResolve(g) ==
    /\ tasks[g].fn = "getOrConnect" /\ tasks[g].at = "resolve"
    /\ LET deviceId == tasks[g].deviceId
           known == deviceId \in DOMAIN discoveredDevices
                        \/ deviceId \in DOMAIN pairedDevices
           discovered == deviceId \in DOMAIN discoveredDevices
           ip == IF discovered THEN discoveredDevices[deviceId].Addr.IP
                 ELSE pairedDevices[deviceId].LastIP
           port == IF discovered THEN discoveredDevices[deviceId].Identity.TcpPort
                   ELSE pairedDevices[deviceId].LastPort
       IN IF known /\ ip # "" /\ port # 0
          THEN /\ tasks' = [tasks EXCEPT ![g] = [fn |-> "getOrConnect",
                                at |-> "connect", deviceId |-> deviceId,
                                ip |-> ip]]
               /\ op' = [name |-> "DialResolve", g |-> g, res |-> "nil"]
          ELSE /\ tasks' = [tasks EXCEPT ![g] = Idle]
               /\ op' = [name |-> "DialResolve", g |-> g,
                         res |-> IF known THEN "missing address"
                                 ELSE "device not found"]
    /\ UNCHANGED <<activeConns, conns, dialOutside>>

\* network.Connect, called with no lock held: it fails, or it returns a new
\* Connection, which from here on is an open transport to the peer.
DialConnect(g) ==
    /\ tasks[g].fn = "getOrConnect" /\ tasks[g].at = "connect"
    /\ \E o \in ConnectOutcomes(Engine, tasks[g].ip) :
          IF o.err
          THEN /\ tasks' = [tasks EXCEPT ![g] = Idle]
               /\ op' = [name |-> "DialConnect", g |-> g, res |-> "connect failed"]
               /\ UNCHANGED conns
          ELSE /\ conns' = Append(conns,
                               Connection(o.identity, tasks[g].ip, o.spki,
                                          tasks[g].deviceId, FALSE, "created"))
               /\ tasks' = [tasks EXCEPT ![g] = [fn |-> "getOrConnect",
                                at |-> "register", deviceId |-> tasks[g].deviceId,
                                conn |-> Len(conns) + 1]]
               /\ op' = [name |-> "DialConnect", g |-> g, res |-> "nil"]
    /\ UNCHANGED <<activeConns, dialOutside>>

\* The write-locked section stores the new connection under the requested id,
\* whatever is there, and the reader loop is started.
DialRegister(g) ==
    /\ tasks[g].fn = "getOrConnect" /\ tasks[g].at = "register"
    /\ activeConns' = Put(activeConns, tasks[g].deviceId, tasks[g].conn)
    /\ conns' = [conns EXCEPT ![tasks[g].conn].loop = "running"]
    /\ tasks' = [tasks EXCEPT ![g] = Idle]
    /\ op' = [name |-> "DialRegister", g |-> g, conn |-> tasks[g].conn]
    /\ UNCHANGED dialOutside

NextDial ==
    \/ \E g \in 1..MaxTasks, deviceId \in Devices : GoSendPacket(g, deviceId)
    \/ \E g \in 1..MaxTasks : DialLookup(g)
    \/ \E g \in 1..MaxTasks : DialResolve(g)
    \/ \E g \in 1..MaxTasks : DialConnect(g)
    \/ \E g \in 1..MaxTasks : DialRegister(g)

SpecDial == Init /\ [][NextDial]_vars

\* ------------------------------------------------- accepting one of several peers
\* Server.handleConnection's OnConnect for a peer that has completed the
\* handshake, on an engine that keeps serving afterwards.
ServeConnection(identity, ip, spki) ==
    /\ Len(conns) < MaxConns
    /\ LET r == handleNewConnection(Engine,
                    Connection(identity, ip, spki, identity.DeviceId, TRUE, "running"))
       IN /\ discoveredDevices' = r.e.disc
          /\ pairedDevices' = r.e.paired
          /\ activeConns' = r.e.active
          /\ conns' = r.e.conns
          /\ config' = r.e.config
          /\ trace' = r.eff
    /\ op' = [name |-> "InboundConnection", identity |-> identity,
              addr |-> UDPAddr(ip, identity.TcpPort), conn |-> Len(conns) + 1,
              res |-> "discovery"]
    /\ UNCHANGED <<sftpOffers, pendingPairing, pinned, steps, hostVars, wireVars,
                   sideVars>>

NextAccept ==
    \/ \E p \in Peers, ip \in IPs : ServeConnection(p.identity, ip, p.spki)
    \/ \E c \in DOMAIN conns, p \in PairPackets : ReaderPacket(c, p)
    \/ \E ip \in IPs : AcceptPairCall(ip)

SpecAccept == Init /\ [][NextAccept]_vars

\* ------------------------------------------------- the age of a stored SFTP offer
sftpOutside == <<hostVars, wireVars, streamVars, lockVars, peerVars>>

\* The window the comment at ConnectSFTP's lookup names, and the clock's step.
RecentSeconds == 30
TickSeconds == 15

\* The reader loop of connection c decodes a kdeconnect.sftp packet; an offer
\* that handlePacket stores is new.
SftpOfferArrives(c, p) ==
    /\ conns[c].loop = "running"
    /\ \E r \in handlePacket(Engine, c, p) :
          /\ Apply(r, [name |-> "handlePacket", conn |-> c,
                       d |-> conns[c].DeviceId, p |-> p, res |-> r.res])
          /\ offerAge' = IF r.res = "offer" THEN Put(offerAge, conns[c].DeviceId, 0)
                         ELSE offerAge
    /\ UNCHANGED <<busVars, sftpOutside>>

\* Time passes for every stored offer.
Tick ==
    /\ \E d \in DOMAIN offerAge : offerAge[d] < MaxAge
    /\ offerAge' = [d \in DOMAIN offerAge |->
                       IF offerAge[d] + TickSeconds < MaxAge
                       THEN offerAge[d] + TickSeconds ELSE MaxAge]
    /\ op' = [name |-> "Tick", res |-> "nil"]
    /\ trace' = <<>>
    /\ UNCHANGED <<discoveredDevices, pairedDevices, sftpOffers, activeConns,
                   pendingPairing, conns, config, pinned, steps, busVars,
                   sftpOutside>>

\* Engine.ConnectSFTP, with the age of the offer it found stored.
ConnectSFTPTimed(deviceId) ==
    /\ busReaders = {}
    /\ \E r \in ConnectSFTP(Engine, listeners, closures, deviceId) :
        /\ closures + r.made <= MaxListeners
        /\ Apply(r, [name |-> "ConnectSFTP", d |-> deviceId, res |-> r.res,
                     took |-> r.took,
                     age |-> IF deviceId \in DOMAIN offerAge
                             THEN offerAge[deviceId] ELSE 0])
        /\ listeners' = r.ls
        /\ closures' = closures + r.made
        /\ offerAge' = IF r.took = "answer" THEN Put(offerAge, deviceId, 0)
                       ELSE offerAge
    /\ UNCHANGED <<busReaders, goroutines, sftpOutside>>

NextSftp ==
    \/ \E p \in Peers, ip \in IPs : ServeConnection(p.identity, ip, p.spki)
    \/ \E c \in DOMAIN conns, p \in SftpPackets : SftpOfferArrives(c, p)
    \/ Tick
    \/ \E d \in Devices : ConnectSFTPTimed(d)

SpecSftp == Init /\ [][NextSftp]_vars

\* ------------------------------------------------- two engines, one connection
peersOutside == <<handlerVars, hostVars, wireVars, busVars, streamVars, lockVars,
                  offerAge>>

Sides == {"a", "b"}

Other(s) == IF s = "a" THEN "b" ELSE "a"

\* What each side announces, and the address it is reached at.
SidePeer(s) ==
    IF s = "a" THEN [identity |-> IdentityBody("d1", "n1", 1716), spki |-> <<48, 1>>]
    ELSE [identity |-> IdentityBody("d2", "n1", 1716), spki |-> <<48, 1>>]

SideIP(s) == IF s = "a" THEN "10.0.0.2" ELSE "10.0.0.3"

\* NewEngine's maps with no config.json.
FreshEngine ==
    [disc |-> EmptyMap, paired |-> EmptyMap, sftp |-> EmptyMap, active |-> EmptyMap,
     pending |-> {}, conns |-> <<>>, config |-> EmptyMap, pinned |-> EmptyMap]

\* The side that hears the other's broadcast and dials it through getOrConnect.
Dialled(s) ==
    LET found == addDiscoveredDevice(FreshEngine, SidePeer(Other(s)).identity,
                                     UDPAddr(SideIP(Other(s)), 1716)).e
        id == SidePeer(Other(s)).identity.DeviceId
    IN (CHOOSE g \in getOrConnect(found, id) :
            /\ g.err = "nil"
            /\ g.e.conns[g.conn].RemoteIdentity = SidePeer(Other(s)).identity).e

\* The side whose server accepts that connection.
Accepted(s) ==
    handleNewConnection(FreshEngine,
        Connection(SidePeer(Other(s)).identity, SideIP(Other(s)),
                   SidePeer(Other(s)).spki, SidePeer(Other(s)).identity.DeviceId,
                   TRUE, "running")).e

\* The packet a successful write puts on the connection.
Wire(eff) ==
    IF eff.Type = "kdeconnect.pair"
    THEN Packet("kdeconnect.pair", TRUE, eff.Pair, CHOOSE ts \in Timestamps : TRUE, 0)
    ELSE Packet(eff.Type, TRUE, FALSE, 0, 0)

Sends(eff) == SelectSeq(eff, LAMBDA x : x.k = "send")

RECURSIVE WireAll(_)
WireAll(sends) ==
    IF sends = <<>> THEN <<>> ELSE <<Wire(Head(sends))>> \o WireAll(Tail(sends))

\* The connection works: every write on it succeeds.
Connected(r) == \A i \in DOMAIN r.eff : r.eff[i].k = "send" => r.eff[i].ok

Changes(eff) ==
    Len(SelectSeq(eff, LAMBDA x : x.k = "emit" /\ x.event = "pairing_changed"))

\* Side s after a handler: its engine, the packets it wrote on the other side's
\* end of the connection, and its pairing_changed events.
Performs(s, r, unread, h, call) ==
    /\ Connected(r)
    /\ engines' = [engines EXCEPT ![s] = r.e]
    /\ links' = [links EXCEPT ![s] = unread,
                              ![Other(s)] = @ \o WireAll(Sends(r.eff))]
    /\ history' = [h EXCEPT !.changed[s] = @ + Changes(r.eff)]
    /\ op' = [name |-> call, side |-> s, res |-> r.res]

\* Side dialler connects to the other; paired or not on both.
Meet(dialler, paired) ==
    /\ engines = <<>>
    /\ LET met == [s \in Sides |-> IF s = dialler THEN Dialled(s) ELSE Accepted(s)]
       IN engines' = [s \in Sides |->
                         IF paired
                         THEN MarkAsPaired(met[s],
                                  SidePeer(Other(s)).identity.DeviceId).e
                         ELSE met[s]]
    /\ links' = [s \in Sides |-> <<>>]
    /\ history' = [history EXCEPT !.changed = [s \in Sides |-> 0],
                                  !.mutual = paired]
    /\ op' = [name |-> "Meet", side |-> dialler, res |-> "nil"]
    /\ UNCHANGED peersOutside

\* The user of side s sends a ping to the other side.
PingAt(s) ==
    /\ engines # <<>>
    /\ history.pings < MaxPings
    /\ \E r \in SendPacket(engines[s], SidePeer(Other(s)).identity.DeviceId,
                           "kdeconnect.ping", FALSE) :
          Performs(s, r, links[s], [history EXCEPT !.pings = @ + 1], "PingAt")
    /\ UNCHANGED peersOutside

\* The user of side s unpairs the other side.
UnpairAt(s) ==
    /\ engines # <<>>
    /\ history.unpairs = 0
    /\ \E r \in Unpair(engines[s], SidePeer(Other(s)).identity.DeviceId) :
          Performs(s, r, links[s], [history EXCEPT !.unpairs = @ + 1], "UnpairAt")
    /\ UNCHANGED peersOutside

\* The reader loop of side s decodes the next packet of the connection and
\* dispatches it.
Deliver(s) ==
    /\ engines # <<>>
    /\ links[s] # <<>>
    /\ \E r \in handlePacket(engines[s], 1, Head(links[s])) :
          Performs(s, r, Tail(links[s]), history, "Deliver")
    /\ UNCHANGED peersOutside

NextPeers ==
    \/ \E s \in Sides, paired \in BOOLEAN : Meet(s, paired)
    \/ \E s \in Sides : PingAt(s)
    \/ \E s \in Sides : UnpairAt(s)
    \/ \E s \in Sides : Deliver(s)

SpecPeers == Init /\ [][NextPeers]_vars

\* Each side's reader goroutine is scheduled: a packet that waits is read.
SpecPeersLive == SpecPeers /\ \A s \in Sides : WF_vars(Deliver(s))

\* ------------------------------------------------- the order locks are taken in
orderOutside == <<handlerVars, hostVars, wireVars, busVars, streamVars, engineMu,
                  peerVars, offerAge>>

\* e.mu and the emitter's mu are sync.RWMutex, a connection's mu is a sync.Mutex.
Locks == {"engine", "bus", "conn"}

\* A step of a call, as far as locks go. Lock and RLock are two steps each: the
\* call, from which on a writer is pending and new readers wait, and the return.
L(lock) == <<[do |-> "call", lock |-> lock], [do |-> "Lock", lock |-> lock]>>
RL(lock) == <<[do |-> "RLock", lock |-> lock]>>
U(lock) == <<[do |-> "Unlock", lock |-> lock]>>
RU(lock) == <<[do |-> "RUnlock", lock |-> lock]>>

\* Mutant: Emit calls each listener itself, here ConnectSFTP's sftp_offer
\* handler, which reads e.sftpOffers under e.mu.RLock.
EmitStepsInline == RL("bus") \o RL("engine") \o RU("engine") \o RU("bus")

\* EventEmitter.Emit: the read lock around a loop of go statements.
EmitSteps == RL("bus") \o RU("bus")

\* SaveConfig: the read-locked snapshot; marshalling and writing hold no lock.
SaveConfigSteps == RL("engine") \o RU("engine")

\* Connection.SendPacket: c.mu around the marshalling and the Write.
ConnSendPacketSteps == L("conn") \o U("conn")

\* getOrConnect with no active connection, and Engine.SendPacket after it.
getOrConnectSteps ==
    RL("engine") \o RU("engine") \o RL("engine") \o RU("engine")
        \o L("engine") \o U("engine")

SendPacketSteps == getOrConnectSteps \o ConnSendPacketSteps

addDiscoveredDeviceSteps ==
    L("engine") \o U("engine") \o SaveConfigSteps \o EmitSteps

MarkAsPairedSteps == L("engine") \o U("engine") \o SaveConfigSteps \o EmitSteps

UnpairSteps ==
    L("engine") \o U("engine") \o SaveConfigSteps \o EmitSteps \o SendPacketSteps

AcceptPairSteps == RL("engine") \o RU("engine") \o ConnSendPacketSteps

\* The calls tasks make: the engine's operations, the branches of handlePacket,
\* the disconnect callbacks, and the listeners the program registers.
Calls ==
    {"AddDeviceManual", "addDiscoveredDevice", "handleNewConnection",
     "handlePacket pair pending", "handlePacket pair request",
     "handlePacket unpair", "handlePacket ping", "handlePacket sftp",
     "OnDisconnect", "Pair", "Unpair", "AcceptPair", "SendPacket", "MarkAsPaired",
     "SaveConfig", "Emit", "On", "sftp_offer handler", "pair_request listener"}

Script(fn) ==
    CASE fn = "AddDeviceManual" -> L("engine") \o EmitSteps \o U("engine")
      [] fn = "addDiscoveredDevice" -> addDiscoveredDeviceSteps
      [] fn = "handleNewConnection" ->
            L("engine") \o U("engine") \o addDiscoveredDeviceSteps
      [] fn = "handlePacket pair pending" ->
            RL("engine") \o RU("engine") \o L("engine") \o U("engine")
                \o MarkAsPairedSteps
      [] fn = "handlePacket pair request" ->
            RL("engine") \o RU("engine") \o addDiscoveredDeviceSteps \o EmitSteps
      [] fn = "handlePacket unpair" -> UnpairSteps
      [] fn = "handlePacket ping" -> ConnSendPacketSteps
      [] fn = "handlePacket sftp" -> L("engine") \o U("engine") \o EmitSteps
      [] fn = "OnDisconnect" -> L("engine") \o U("engine")
      [] fn = "Pair" -> L("engine") \o U("engine") \o SendPacketSteps
      [] fn = "Unpair" -> UnpairSteps
      [] fn = "AcceptPair" -> AcceptPairSteps
      [] fn = "SendPacket" -> SendPacketSteps
      [] fn = "MarkAsPaired" -> MarkAsPairedSteps
      [] fn = "SaveConfig" -> SaveConfigSteps
      [] fn = "Emit" -> EmitSteps
      [] fn = "On" -> L("bus") \o U("bus")
      [] fn = "sftp_offer handler" -> RL("engine") \o RU("engine")
      [] fn = "pair_request listener" -> AcceptPairSteps \o MarkAsPairedSteps

Busy == {g \in 1..MaxTasks : tasks[g] # Idle}

\* The step task g is at.
Wanted(g) == Script(tasks[g].fn)[tasks[g].at]

HoldsLock(g, lock, mode) ==
    \E i \in DOMAIN tasks[g].held : tasks[g].held[i] = <<lock, mode>>

\* A writer that has called Lock and has not returned from it.
Pending(g, lock) == Wanted(g) = [do |-> "Lock", lock |-> lock]

\* The tasks the step of g waits for: Lock waits for every holder, RLock for
\* the writer that holds the lock and for every pending writer.
Blockers(g) ==
    LET w == Wanted(g)
    IN IF w.do = "Lock"
       THEN {h \in Busy : HoldsLock(h, w.lock, "w") \/ HoldsLock(h, w.lock, "r")}
       ELSE IF w.do = "RLock"
       THEN {h \in Busy : HoldsLock(h, w.lock, "w") \/ Pending(h, w.lock)}
       ELSE {}

\* held without its last entry for the lock.
RECURSIVE Released(_, _)
Released(held, lock) ==
    IF held = <<>> THEN <<>>
    ELSE IF held[Len(held)][1] = lock THEN SubSeq(held, 1, Len(held) - 1)
    ELSE Append(Released(SubSeq(held, 1, Len(held) - 1), lock), held[Len(held)])

\* A goroutine starts a call.
GoCall(g, fn) ==
    /\ tasks[g] = Idle
    /\ tasks' = [tasks EXCEPT ![g] = [fn |-> fn, at |-> 1, held |-> <<>>]]
    /\ op' = [name |-> "go", g |-> g, fn |-> fn]
    /\ UNCHANGED orderOutside

\* Task g takes the step it is at; after the last one the call has returned.
TaskStep(g) ==
    /\ g \in Busy
    /\ Blockers(g) = {}
    /\ LET w == Wanted(g)
           held == CASE w.do = "Lock" -> Append(tasks[g].held, <<w.lock, "w">>)
                     [] w.do = "RLock" -> Append(tasks[g].held, <<w.lock, "r">>)
                     [] w.do \in {"Unlock", "RUnlock"} ->
                            Released(tasks[g].held, w.lock)
                     [] OTHER -> tasks[g].held
       IN tasks' = [tasks EXCEPT ![g] =
                       IF tasks[g].at = Len(Script(tasks[g].fn)) THEN Idle
                       ELSE [fn |-> tasks[g].fn, at |-> tasks[g].at + 1,
                             held |-> held]]
    /\ op' = [name |-> "step", g |-> g, fn |-> tasks[g].fn, do |-> Wanted(g)]
    /\ UNCHANGED orderOutside

NextOrder ==
    \/ \E g \in 1..MaxTasks, fn \in Calls : GoCall(g, fn)
    \/ \E g \in 1..MaxTasks : TaskStep(g)

SpecOrder == Init /\ [][NextOrder]_vars

\* ------------------------------------------------------------- effects of the last operation
\* Positions in trace of the emissions of event ev, and of the config saves.
Emitted(ev) == {i \in DOMAIN trace : trace[i].k = "emit" /\ trace[i].event = ev}
Saved == {i \in DOMAIN trace : trace[i].k = "save"}

\* ------------------------------------------------------------- C1
\* C1: when connection c reports its disconnect while active_conns[d] holds
\* another connection, registered after it, that entry is left as it is: an
\* entry is removed only when it holds the connection reporting the disconnect.
C1_DisconnectKeepsReplacement ==
    (op.name = "OnDisconnect" /\ op.stored # NoConn /\ op.stored # op.conn)
        => (op.d \in DOMAIN activeConns /\ activeConns[op.d] = op.stored)

\* ------------------------------------------------------------- C2
\* C2: a reader loop that has not met an error has not invoked on_disconnect;
\* one that has met its first error has invoked it exactly once, has
\* terminated, and no entry of active_conns points to its connection.
C2_DisconnectOnceAndCleanup ==
    \A c \in DOMAIN conns :
        /\ conns[c].loop = "running" => conns[c].disconnects = 0
        /\ conns[c].loop = "done" =>
              /\ conns[c].disconnects = 1
              /\ \A d \in DOMAIN activeConns : activeConns[d] # c

\* A connection whose loop ended while another connection is still registered.
C2_Witness ==
    \E c \in DOMAIN conns :
        /\ conns[c].loop = "done"
        /\ op.name = "OnDisconnect" /\ op.conn = c /\ op.stored = c
        /\ activeConns # EmptyMap

\* ------------------------------------------------------------- the dispatch of pair packets
engineVars == <<discoveredDevices, pairedDevices, sftpOffers, activeConns,
                pendingPairing, conns, config>>

\* The last operation dispatched a well-formed kdeconnect.pair with pair = true.
DispatchedPairTrue ==
    /\ op.name = "handlePacket"
    /\ op.p.Type = "kdeconnect.pair" /\ op.p.valid /\ op.p.Pair

\* The last operation emitted pair_request with the connection's peer IP, the
\* identity its peer announced and the key of that peer's leaf certificate.
PairRequestEmitted ==
    /\ Cardinality(Emitted("pair_request")) = 1
    /\ \A i \in Emitted("pair_request") :
          trace[i].req =
              PairRequest(conns[op.conn].ip, conns[op.conn].RemoteIdentity,
                          GetVerificationKey(LocalSPKI, conns[op.conn].spki,
                                             op.p.Timestamp))

\* ------------------------------------------------------------- C3
\* C3: after a pair = true packet from d is dispatched, on a connection
\* registered for d, while pending_pairing contains d, pending_pairing does not
\* contain d, d is in the paired map, the config was persisted,
\* pairing_changed(d) was emitted and no pair_request was.
C3_PendingPairCompletes ==
    (DispatchedPairTrue /\ op.isPending /\ conns[op.conn].key = op.d) =>
        /\ op.d \notin pendingPairing
        /\ op.d \in DOMAIN pairedDevices
        /\ Saved # {} /\ config = pairedDevices
        /\ \E i \in Emitted("pairing_changed") : trace[i].id = op.d
        /\ Emitted("pair_request") = {}

\* ------------------------------------------------------------- C4
\* C4 as stated: a pair = true packet from d dispatched while pending_pairing
\* does not contain d emits pair_request (remote IP, identity, key) and leaves
\* the paired map unchanged.
C4_PairRequestPairedUnchanged ==
    [][(DispatchedPairTrue' /\ ~op'.isPending) =>
          (PairRequestEmitted' /\ pairedDevices' = pairedDevices)]_vars

\* C4 as amended: such a dispatch emits pair_request (remote IP, identity, key)
\* and adds no device to the paired map and removes none; the only record that
\* may change is that of d itself, when d is already paired and not yet
\* discovered, and it then holds the connection's identity and address.
C4_PairRequestNoAutoPair ==
    [][(DispatchedPairTrue' /\ ~op'.isPending) =>
          /\ PairRequestEmitted'
          /\ DOMAIN pairedDevices' = DOMAIN pairedDevices
          /\ \A x \in DOMAIN pairedDevices :
                pairedDevices'[x] # pairedDevices[x] =>
                    /\ x = op'.d /\ ~op'.exists
                    /\ pairedDevices'[x] =
                          PairedDeviceInfo(conns[op'.conn].RemoteIdentity,
                                           conns[op'.conn].ip,
                                           conns[op'.conn].RemoteIdentity.TcpPort)]_vars

\* A pair request from a paired, undiscovered peer that refreshed its record.
C4_Witness ==
    /\ DispatchedPairTrue /\ ~op.isPending
    /\ Emitted("pair_request") # {}
    /\ op.wasPaired /\ ~op.exists /\ Saved # {}

\* ------------------------------------------------------------- C5
\* C5: a device counts as paired on its current connection only if the leaf
\* certificate presented on that connection is the one presented when it was
\* paired.
C5_PairedOnlyWithPinnedCertificate ==
    \A d \in DOMAIN activeConns :
        (/\ conns[activeConns[d]].DeviceId = d
         /\ d \in DOMAIN pinned
         /\ IsPaired(Engine, d))
            => conns[activeConns[d]].spki = pinned[d]

\* ------------------------------------------------------------- C6
\* C6: accept_pair(ip) writes exactly one kdeconnect.pair packet with
\* pair = true, on an active connection whose peer IP is ip; with no such
\* connection it writes nothing and changes no engine state.
C6_AcceptPairSendsOnMatchingConnection ==
    [][op'.name = "AcceptPair" =>
          IF \E d \in DOMAIN activeConns : conns[activeConns[d]].ip = op'.ip
          THEN /\ Len(trace') = 1
               /\ trace'[1].k = "send"
               /\ trace'[1].Type = "kdeconnect.pair" /\ trace'[1].Pair
               /\ \E d \in DOMAIN activeConns :
                     /\ activeConns[d] = trace'[1].conn
                     /\ conns[activeConns[d]].ip = op'.ip
          ELSE trace' = <<>> /\ UNCHANGED engineVars]_vars

\* accept_pair sent its packet while a connection with another peer IP is active.
C6_Witness ==
    /\ op.name = "AcceptPair" /\ op.res = "sent"
    /\ \E d \in DOMAIN activeConns : conns[activeConns[d]].ip # op.ip

\* ------------------------------------------------------------- C7
\* C7: unpair(d) on a paired d removes d from the paired map, persists the
\* config, emits pairing_changed(d) and only then attempts to write a
\* kdeconnect.pair packet with pair = false, dialling the device first when it
\* has no connection; whether or not that succeeds, d stays removed and unpair
\* returns no error.
C7_UnpairRemovesPersistsNotifies ==
    (op.name = "Unpair" /\ op.wasPaired) =>
        /\ op.d \notin DOMAIN pairedDevices
        /\ config = pairedDevices
        /\ op.res = "nil"
        /\ Len(trace) \in 2..4
        /\ trace[1].k = "save" /\ trace[1].paired = pairedDevices
        /\ trace[2].k = "emit" /\ trace[2].event = "pairing_changed"
        /\ trace[2].id = op.d
        /\ \A i \in 3..Len(trace) :
              \/ trace[i].k = "dial" /\ i = 3
              \/ /\ trace[i].k = "send" /\ i = Len(trace)
                 /\ trace[i].Type = "kdeconnect.pair" /\ ~trace[i].Pair

\* unpair of a paired device whose pair = false packet could not be sent.
C7_Witness ==
    /\ op.name = "Unpair" /\ op.wasPaired
    /\ \/ Len(trace) = 2
       \/ Len(trace) > 2 /\ ~trace[Len(trace)].ok

\* ------------------------------------------------------------- C8
\* C8: unpair(d) for a d that is not paired changes no engine map, saves no
\* config, emits no event and sends no packet; completing pairing for a d that
\* is already paired leaves d in the paired map, with no entry added.
C8_PairUnpairIdempotent ==
    [][/\ (op'.name = "Unpair" /\ ~op'.wasPaired) =>
              (UNCHANGED engineVars /\ trace' = <<>>)
       /\ (/\ \/ op'.name = "MarkAsPaired"
              \/ op'.name = "handlePacket" /\ op'.res = "paired"
           /\ op'.wasPaired) =>
              /\ op'.d \in DOMAIN pairedDevices'
              /\ DOMAIN pairedDevices' = DOMAIN pairedDevices]_vars

\* unpair of a device that is not paired, with another device paired.
C8_Witness ==
    /\ op.name = "Unpair" /\ ~op.wasPaired /\ op.res = "device not paired"
    /\ pairedDevices # EmptyMap

\* ------------------------------------------------------------- C9
\* C9: a packet whose type is none of kdeconnect.pair, kdeconnect.ping and
\* kdeconnect.sftp is forwarded in a `packet` event carrying the device id.
C9_OtherPacketsForwarded ==
    (/\ op.name = "handlePacket"
     /\ op.p.Type \notin {"kdeconnect.pair", "kdeconnect.ping", "kdeconnect.sftp"})
        => \E i \in Emitted("packet") : trace[i].id = op.d

\* ------------------------------------------------------------- C10
\* C10: after a discovery event the discovered map holds, under the event's
\* device id, the record with the identity and address of that event, whatever
\* was recorded before, and device_discovered was emitted for the event.
C10_LatestDiscoveryWins ==
    op.res = "discovery" =>
        /\ op.identity.DeviceId \in DOMAIN discoveredDevices
        /\ discoveredDevices[op.identity.DeviceId] =
              DiscoveredDevice(op.identity, op.addr)
        /\ Cardinality(Emitted("device_discovered")) = 1
        /\ \A i \in Emitted("device_discovered") :
              trace[i].dev = DiscoveredDevice(op.identity, op.addr)

\* A datagram replaced a different record of the same device.
C10_Witness ==
    /\ op.name = "UdpIdentity" /\ op.res = "discovery" /\ op.replaced

\* ------------------------------------------------------------- C11
\* C11: a datagram of a paired device d whose source IP, source port or device
\* name differs from d's paired record makes the paired record hold the
\* datagram's identity, IP and port, and the config is persisted.
C11_RediscoveryUpdatesPairedRecord ==
    [][(/\ op'.name = "UdpIdentity" /\ op'.res = "discovery"
        /\ op'.identity.DeviceId \in DOMAIN pairedDevices
        /\ LET info == pairedDevices[op'.identity.DeviceId]
           IN \/ info.LastIP # op'.addr.IP
              \/ info.LastPort # op'.addr.Port
              \/ info.Identity.DeviceName # op'.identity.DeviceName) =>
          /\ pairedDevices'[op'.identity.DeviceId] =
                PairedDeviceInfo(op'.identity, op'.addr.IP, op'.addr.Port)
          /\ Saved' # {} /\ config' = pairedDevices']_vars

\* ------------------------------------------------------------- C12
\* C12: a discovery event saves the config exactly once when it changes the
\* paired map and not at all otherwise, an event of an unpaired device never
\* changes the paired map, and after an event of a paired device from ip the
\* device's paired record has last_ip = ip.
C12_SaveOncePerPairedChange ==
    [][op'.res = "discovery" =>
          LET d == op'.identity.DeviceId
          IN /\ Cardinality(Saved') =
                   (IF pairedDevices' # pairedDevices THEN 1 ELSE 0)
             /\ \A i \in Saved' : trace'[i].paired = pairedDevices'
             /\ d \notin DOMAIN pairedDevices => pairedDevices' = pairedDevices
             /\ d \in DOMAIN pairedDevices =>
                   pairedDevices'[d].LastIP = op'.addr.IP]_vars

\* A second datagram of a paired device, from 10.0.0.3, that replaced the
\* discovered record and was saved once.
C12_Witness ==
    /\ op.name = "UdpIdentity" /\ op.res = "discovery" /\ op.replaced
    /\ op.addr.IP = "10.0.0.3"
    /\ op.identity.DeviceId \in DOMAIN pairedDevices
    /\ pairedDevices[op.identity.DeviceId].LastIP = "10.0.0.3"
    /\ Cardinality(Saved) = 1

\* ------------------------------------------------------------- C13
\* C13: a datagram whose identity carries the local device id changes nothing
\* in the engine and emits no event; in particular it is not inserted into the
\* discovered map and no device_discovered is emitted for it.
C13_SelfFilter ==
    [][(op'.name = "UdpIdentity" /\ op'.identity.DeviceId = LocalDeviceId) =>
          (UNCHANGED engineVars /\ trace' = <<>>)]_vars

\* The engine's own datagram arrived after another device was discovered.
C13_Witness ==
    /\ op.name = "UdpIdentity" /\ op.identity.DeviceId = LocalDeviceId
    /\ op.res = "self" /\ discoveredDevices # EmptyMap

\* ------------------------------------------------------------- C14
\* C14: send(d, ...) with no active connection for d dials the IP and TCP port
\* of discovered[d] when d is discovered and otherwise last_ip/last_port of
\* paired[d], registers the new connection under d with its reader running and
\* writes the packet on it; when d is in neither map, the IP or the port is
\* missing, or the dial fails, it returns the error, writes no packet and
\* leaves the engine as it was.
C14_SendDialsResolvedAddress ==
    [][(op'.name = "SendPacket" /\ op'.d \notin DOMAIN activeConns) =>
          LET d == op'.d
              discovered == d \in DOMAIN discoveredDevices
              known == discovered \/ d \in DOMAIN pairedDevices
              ip == IF discovered THEN discoveredDevices[d].Addr.IP
                    ELSE pairedDevices[d].LastIP
              port == IF discovered THEN discoveredDevices[d].Identity.TcpPort
                      ELSE pairedDevices[d].LastPort
              c == Len(conns) + 1
          IN IF ~known \/ ip = "" \/ port = 0
             THEN /\ op'.res \in {"device not found", "missing address"}
                  /\ trace' = <<>> /\ UNCHANGED engineVars
             ELSE /\ Len(trace') >= 1
                  /\ trace'[1].k = "dial"
                  /\ trace'[1].ip = ip /\ trace'[1].port = port
                  /\ IF trace'[1].ok
                     THEN /\ activeConns' = Put(activeConns, d, c)
                          /\ Len(conns') = c /\ conns'[c].loop = "running"
                          /\ conns'[c].ip = ip
                          /\ Len(trace') = 2 /\ trace'[2].k = "send"
                          /\ trace'[2].conn = c
                     ELSE /\ op'.res = "connect failed"
                          /\ Len(trace') = 1 /\ UNCHANGED engineVars]_vars

\* send dialled the discovered address of a device whose paired record holds
\* another address, and registered the connection.
C14_Witness ==
    /\ op.name = "SendPacket" /\ Len(trace) = 2
    /\ trace[1].k = "dial" /\ trace[1].ok
    /\ op.d \in DOMAIN discoveredDevices /\ op.d \in DOMAIN pairedDevices
    /\ trace[1].ip = discoveredDevices[op.d].Addr.IP
    /\ pairedDevices[op.d].LastIP # trace[1].ip
    /\ pairedDevices[op.d].LastIP # ""
    /\ op.d \in DOMAIN activeConns /\ activeConns[op.d] = trace[2].conn

\* ------------------------------------------------------------- C15
\* C15: once the engine advertises its identity and its server has tried to
\* listen, the listener is bound to the identity's tcp_port.
C15_AdvertisedPortIsBound ==
    phase \in {"listening", "failed"} => listener = Identity.TcpPort

\* ------------------------------------------------------------- C16
\* C16: a start that finds a loadable config yields the device id stored in
\* it, whether or not the key pair loads.
C16_DeviceIdSurvivesRestart ==
    [][(phase = "stopped" /\ phase' = "created" /\ configFile # <<>>) =>
          Identity'.DeviceId = configFile[1].DeviceId]_vars

\* ------------------------------------------------------------- C17
\* C17: the verification key of (A, B, t) is the verification key of
\* (B, A, t), for equal blobs and for a blob that is a prefix of the other too.
C17_VerificationKeySymmetric ==
    op.name = "GetVerificationKey" =>
        op.res = GetVerificationKey(op.pubB, op.pubA, op.timestamp)

\* A call whose first blob is a proper prefix of its second.
C17_Witness ==
    /\ op.name = "GetVerificationKey"
    /\ Len(op.pubA) < Len(op.pubB) /\ op.pubA # <<>>
    /\ SubSeq(op.pubB, 1, Len(op.pubA)) = op.pubA

\* ------------------------------------------------------------- C18
\* Lexicographic order of unsigned bytes, by the first position that differs.
LexSmaller(a, b) ==
    \E i \in 1..(Len(b)) :
        /\ i - 1 <= Len(a)
        /\ SubSeq(a, 1, i - 1) = SubSeq(b, 1, i - 1)
        /\ i <= Len(a) => a[i] < b[i]

\* The number a string of ASCII digits, with an optional minus sign, denotes.
RECURSIVE DigitsValue(_)
DigitsValue(d) ==
    IF d = <<>> THEN 0
    ELSE IF Head(d) = 45 THEN 0 - DigitsValue(Tail(d))
    ELSE 10 * DigitsValue(SubSeq(d, 1, Len(d) - 1)) + (d[Len(d)] - 48)

\* C18: the bytes hashed are the larger blob, then the smaller one, then the
\* timestamp in ASCII decimal; for A = 0x3001, B = 0x3082 and t = 1700000000
\* they are 0x3082 0x3001 "1700000000".
C18_CombinedLargerFirst ==
    op.name = "GetVerificationKey" =>
        LET larger == IF LexSmaller(op.pubA, op.pubB) THEN op.pubB ELSE op.pubA
            smaller == IF LexSmaller(op.pubA, op.pubB) THEN op.pubA ELSE op.pubB
            n == Len(op.pubA) + Len(op.pubB)
            digits == SubSeq(op.combined, n + 1, Len(op.combined))
        IN /\ SubSeq(op.combined, 1, n) = larger \o smaller
           /\ digits # <<>>
           /\ \A i \in DOMAIN digits :
                 digits[i] \in 48..57 \/ (i = 1 /\ digits[i] = 45)
           /\ DigitsValue(digits) = op.timestamp
           /\ (Len(digits) > 1 /\ op.timestamp >= 0) => digits[1] # 48
           /\ (/\ op.pubA = <<48, 1>> /\ op.pubB = <<48, 130>>
               /\ op.timestamp = 1700000000) =>
                 op.combined = <<48, 130, 48, 1,
                                 49, 55, 48, 48, 48, 48, 48, 48, 48, 48>>

\* The key of A = 0x3001, B = 0x3082, t = 1700000000.
C18_Witness ==
    /\ op.name = "GetVerificationKey"
    /\ op.pubA = <<48, 1>> /\ op.pubB = <<48, 130>>
    /\ op.timestamp = 1700000000

\* ------------------------------------------------------------- C19
\* Bit k of byte x.
Bit(x, k) == (x \div (2 ^ k)) % 2

\* The byte whose bit k is set when it is set in x or clear in m.
DirectedByte(x, m) ==
    LET b(k) == IF Bit(x, k) = 1 \/ Bit(m, k) = 0 THEN 2 ^ k ELSE 0
    IN b(0) + b(1) + b(2) + b(3) + b(4) + b(5) + b(6) + b(7)

\* C19: the discovery targets always contain 255.255.255.255, also when the
\* interfaces cannot be enumerated, and for every IPv4 address ip with mask m
\* read from an interface that is up and can broadcast they contain the
\* address whose bytes are ip[i] | ~m[i]; 172.16.5.4 with mask 255.255.240.0
\* gives 172.16.15.255.
C19_BroadcastTargets ==
    op.name = "StartDiscovery" =>
        /\ \E k \in DOMAIN op.res : op.res[k] = GlobalBroadcast
        /\ ~op.failed =>
              \A i \in DOMAIN op.ifaces :
                 LET iface == op.ifaces[i]
                 IN (iface.up /\ iface.broadcast /\ ~iface.addrsErr) =>
                       \A j \in DOMAIN iface.addrs :
                          LET a == iface.addrs[j]
                          IN a.v4 =>
                                /\ \E k \in DOMAIN op.res :
                                      op.res[k] = DottedQuad(
                                          [n \in 1..4 |->
                                              DirectedByte(a.ip[n], a.mask[n])])
                                /\ (/\ a.ip = <<172, 16, 5, 4>>
                                    /\ a.mask = <<255, 255, 240, 0>>) =>
                                      \E k \in DOMAIN op.res :
                                         op.res[k] = <<49, 55, 50, 46, 49, 54, 46,
                                                       49, 53, 46, 50, 53, 53>>

\* Targets computed from an interface with a mask that is not byte-aligned,
\* next to an interface that is skipped.
C19_Witness ==
    /\ op.name = "StartDiscovery" /\ ~op.failed
    /\ Len(op.res) = 2
    /\ \E i \in DOMAIN op.ifaces :
          /\ op.ifaces[i].up /\ op.ifaces[i].broadcast /\ ~op.ifaces[i].addrsErr
          /\ op.ifaces[i].addrs = <<IPNet(<<172, 16, 5, 4>>, <<255, 255, 240, 0>>)>>
    /\ \E i \in DOMAIN op.ifaces : ~op.ifaces[i].up

\* ------------------------------------------------------------- C20
\* C20: whatever the goroutines sending on a connection do, the stream is a
\* sequence of whole packets, each its JSON followed at once by its own
\* newline, with no piece of another packet in between; the only JSON without
\* its newline is the last piece, of the packet being written under the mutex
\* or of the packet whose write failed.
C20_PacketsNotInterleaved ==
    \A i \in DOMAIN Conn.out :
        LET x == Conn.out[i]
        IN /\ x.part = "nl" =>
                 i > 1 /\ Conn.out[i - 1] = Piece(x.g, x.n, "json")
           /\ x.part = "json" =>
                 IF i < Len(Conn.out)
                 THEN Conn.out[i + 1] = Piece(x.g, x.n, "nl")
                 ELSE \/ Conn.err
                      \/ mu = x.g /\ pc[x.g] = [at |-> "newline", n |-> x.n - 1]

\* Two goroutines have each written a whole packet and a third packet is
\* half written while the other goroutine waits for the mutex.
C20_Witness ==
    /\ Len(Conn.out) = 5 /\ ~Conn.err
    /\ Conn.out[1].g # Conn.out[3].g
    /\ mu = Conn.out[5].g
    /\ \E g \in 1..MaxSenders : g # mu /\ pc[g] = [at |-> "idle", n |-> 1]

\* ------------------------------------------------------------- C28
\* C28: a read or decode error on a connection registered for d changes
\* nothing but active_conns[d]: the discovered and paired maps, the pending
\* set, the sftp offers, the saved config and the entries of all other devices
\* stay as they are, nothing is emitted or sent, and every other connection
\* keeps its reader loop.
C28_DisconnectFrame ==
    [][op'.name = "OnDisconnect" =>
          /\ UNCHANGED <<discoveredDevices, pairedDevices, pendingPairing,
                         sftpOffers, config>>
          /\ trace' = <<>>
          /\ DOMAIN activeConns' \subseteq DOMAIN activeConns
          /\ \A x \in DOMAIN activeConns :
                x # op'.d =>
                   x \in DOMAIN activeConns' /\ activeConns'[x] = activeConns[x]
          /\ Len(conns') = Len(conns)
          /\ \A c \in DOMAIN conns : c # op'.conn => conns'[c] = conns[c]]_vars

\* A dialled connection failed while another device is connected, paired and
\* discovered; that device's connection is still registered and reading.
C28_Witness ==
    /\ op.name = "OnDisconnect" /\ ~conns[op.conn].guarded
    /\ \E x \in DOMAIN activeConns :
          /\ x # op.d /\ conns[activeConns[x]].loop = "running"
          /\ x \in DOMAIN discoveredDevices

\* ------------------------------------------------------------- C29
\* C29: when pair(d) returns an error, pending_pairing does not contain d.
C29_FailedPairClearsPending ==
    (op.name = "Pair" /\ op.res # "nil") => op.d \notin pendingPairing

\* ------------------------------------------------------------- C30
\* C30: when pair(d) has sent its request and the next packet dispatched is
\* d's kdeconnect.pair answer with pair = false, pending_pairing does not
\* contain d afterwards.
C30_RejectedPairClearsPending ==
    [][(/\ op.name = "Pair" /\ op.res = "nil"
        /\ op'.name = "handlePacket" /\ op'.d = op.d
        /\ op'.p.Type = "kdeconnect.pair" /\ op'.p.valid /\ ~op'.p.Pair)
          => op'.d \notin pendingPairing']_vars

\* ------------------------------------------------------------- C22
\* C22: Emit does not wait for a listener, and no listener executes while the
\* goroutine that emitted to it still holds the bus lock.
C22_NoListenerUnderEmitLock ==
    \A g \in DOMAIN goroutines :
        (goroutines[g].fn = "listener" /\ goroutines[g].at = "running")
            => goroutines[g].by \notin busReaders

\* ------------------------------------------------------------- C23
\* C23: after Off(event, listener) the listener is no longer registered for
\* the event, and a ConnectSFTP call leaves the number of sftp_offer listeners
\* what it was before the call.
C23_OffRemovesListener ==
    [][/\ op'.name = "Off"
          => \A i \in DOMAIN listeners'[op'.event] :
                 listeners'[op'.event][i].id # op'.l
       /\ op'.name = "ConnectSFTP"
          => Len(listeners'["sftp_offer"]) = Len(listeners["sftp_offer"])]_vars

\* ------------------------------------------------------------- C21
\* C21: no goroutine reads one of the engine's maps, the config save's
\* serialization of the paired map included, while another goroutine is
\* writing the maps.
C21_NoReadWhileWritten ==
    \A g, h \in 1..MaxTasks : (g # h /\ Reads(g)) => ~Writes(h)

\* ------------------------------------------------------------- C24
\* C24: in the inbound handshake the identity line, the bytes given to TLS,
\* the bytes still in the line reader and the bytes still on the socket are,
\* in this order, what the peer wrote: the bytes the reader held after the
\* newline reach TLS in order, before any byte read later, none dropped or
\* given twice.
C24_BufferedBytesReplayed ==
    path.reader = "BufferedConn" => line \o rest \o buffer \o stream = path.sent

\* The reader held bytes past the newline, TLS has read them and all that
\* came after them.
C24_Witness ==
    /\ path.reader = "BufferedConn"
    /\ stage = "done"
    /\ path.residual # <<>>
    /\ Len(path.residual) < Len(rest)

\* ------------------------------------------------------------- C26
\* C26: the identity read consumes no byte past the identity packet, so once
\* the stream is read to its end the reader loop has decoded exactly the
\* packets the peer wrote after its identity, in order.
C26_NoPacketLost ==
    (stage = "done" /\ path.reader \in {"bufio.Reader", "json.Decoder"})
        => Decoded(line \o rest) = Decoded(path.sent)

\* ------------------------------------------------------------- C25
\* C25: when a step of a handshake fails, the transport that was opened is
\* closed and active_conns is left as it was, no Connection being created;
\* outbound, Connect returns the error, and so does the call that dialled.
C25_FailedHandshakeCleansUp ==
    [][/\ (op'.name = "Connect" /\ op'.failAt # "none")
          => /\ op'.res # "nil"
             /\ op'.conn = <<>>
             /\ op'.opened => op'.closed
             /\ UNCHANGED <<activeConns, conns>>
       /\ (op'.name = "handleConnection" /\ Failing(op'.version, op'.failAt) # "none")
          => /\ op'.closed
             /\ UNCHANGED <<activeConns, conns>>
       /\ (op'.name = "SendPacket" /\ trace' # <<>> /\ trace'[1].k = "dial"
             /\ ~trace'[1].ok)
          => /\ op'.res # "nil"
             /\ UNCHANGED <<activeConns, conns>>]_vars

\* With a connection registered, an inbound handshake has failed at the read
\* of the encrypted identity.
C25_Witness ==
    /\ op.name = "handleConnection"
    /\ op.version = 8
    /\ op.failAt = "encrypted identity read"
    /\ op.closed
    /\ activeConns # EmptyMap

\* ------------------------------------------------------------- C27
\* C27: loading the config that SaveConfig wrote restores the identity and
\* the paired map that were saved; loading a config of the older schema yields
\* for each device id one paired entry that holds its identity and an empty
\* last address.
C27_ConfigRoundTrip ==
    [][/\ op'.name = "Restart"
          => /\ pairedDevices' = config
             /\ Identity' = Identity
       /\ op'.name = "LoadConfig"
          => /\ op'.loaded.Identity = Identity
             /\ op'.loaded.paired =
                    [k \in DOMAIN op'.old |-> PairedDeviceInfo(op'.old[k], "", 0)]]_vars

\* ------------------------------------------------------------- C34
\* C34: every connection in active_conns is registered under the device id
\* that its peer announced in the handshake.
C34_RegisteredUnderAnnouncedId ==
    \A k \in DOMAIN activeConns : conns[activeConns[k]].DeviceId = k

\* ------------------------------------------------------------- C35
\* C35: the last port of every paired record that holds an address is the TCP
\* port of the identity the peer announced.
C35_LastPortIsTcpPort ==
    \A d \in DOMAIN pairedDevices :
        pairedDevices[d].LastIP # ""
            => pairedDevices[d].LastPort = pairedDevices[d].Identity.TcpPort

\* ------------------------------------------------------------- C36
\* C36: once every operation that saves the config has returned, the paired
\* map in config.json is the paired map in memory.
C36_LastSaveIsNewest ==
    (\A g \in 1..MaxTasks : tasks[g] = Idle) => config = pairedDevices


\* C38: however Engine.SendPacket calls for one device interleave, every
\* connection that getOrConnect has established and whose reader loop runs is
\* the one registered in active_conns, so at most one is established per device.
C38_OneConnectionPerDevice ==
    \A c \in DOMAIN conns :
        conns[c].loop = "running"
            => /\ conns[c].key \in DOMAIN activeConns
               /\ activeConns[conns[c].key] = c


\* C31: when the dispatch of a pair = true packet on device d's connection has
\* emitted pair_request with that connection's peer IP and accept_pair is then
\* called with that IP, every packet it writes goes to a connection of d,
\* whatever other device's active connection reports the same peer IP.
C31_AcceptPairAnswersRequester ==
    [][(DispatchedPairTrue /\ PairRequestEmitted
            /\ op'.name = "AcceptPair" /\ op'.ip = conns[op.conn].ip)
          => \A i \in DOMAIN trace' :
                trace'[i].k = "send"
                    => conns[trace'[i].conn].DeviceId = op.d]_vars


\* C39: when ConnectSFTP takes the offer that was stored before its browse
\* request, that offer was stored less than 30 seconds earlier.
C39_StoredOfferIsRecent ==
    (op.name = "ConnectSFTP" /\ op.took = "stored") => op.age < RecentSeconds


\* C32: between two connected engines, after the pings their users send, the
\* connection eventually carries no more packets.
C32_PingQuiesces ==
    <>[](engines # <<>> => \A s \in Sides : links[s] = <<>>)


\* Neither side has the other in its paired map, each has emitted
\* pairing_changed once, and no kdeconnect.pair packet is on the connection.
UnpairSettled ==
    /\ engines # <<>>
    /\ \A s \in Sides :
          /\ SidePeer(Other(s)).identity.DeviceId \notin DOMAIN engines[s].paired
          /\ history.changed[s] = 1
          /\ \A i \in DOMAIN links[s] : links[s][i].Type # "kdeconnect.pair"

\* C33: between two connected, mutually paired engines, once one side's user
\* has called unpair, from some point on neither side has the other in its
\* paired map, each has emitted pairing_changed exactly once and no
\* kdeconnect.pair packet is written any more.
C33_UnpairSettles ==
    []((history.mutual /\ history.unpairs = 1) => <>[]UnpairSettled)

\* The unpair of mutually paired sides has settled, the answer to the
\* pair = false packet included.
C33_Witness ==
    /\ history.mutual /\ history.unpairs = 1
    /\ UnpairSettled
    /\ op.name = "Deliver" /\ op.res = "unpair"
    /\ \A s \in Sides : links[s] = <<>>


\* The tasks that can go on: those whose step waits for nobody, then those
\* that wait only for tasks that can go on.
RECURSIVE Proceeding(_, _)
Proceeding(S, n) ==
    IF n = 0 THEN S
    ELSE Proceeding(S \cup {g \in Busy : Blockers(g) \subseteq S}, n - 1)

\* C37: in every state reached by interleaving the engine's operations and the
\* listener callbacks, every task that waits for the engine lock, a connection's
\* write mutex or the event-bus lock waits for tasks that can go on: no task
\* waits for itself or in a cycle.
C37_NoLockCycle ==
    Proceeding({}, MaxTasks) = Busy

\* AddDeviceManual holds the engine lock and waits in Emit for the bus lock,
\* which a caller of On holds.
C37_Witness ==
    \E g, h \in Busy :
        /\ tasks[g].fn = "AddDeviceManual"
        /\ HoldsLock(g, "engine", "w")
        /\ Wanted(g) = [do |-> "RLock", lock |-> "bus"]
        /\ h \in Blockers(g)
        /\ tasks[h].fn = "On"

============================================================================
